---- MODULE Spec2Model ----
(***************************************************************************)
(* A model of the sunstone library: the URL safety gate (_is_public_url),  *)
(* the remote fetcher (DatasetsManager.fetch_from_url) and the dataset     *)
(* registry with the strict/relaxed read/write policy (DatasetsManager,    *)
(* DataFrame.read_csv / read_dataset / to_csv), the registry's mutating    *)
(* calls (add_output_dataset, update_output_dataset) and the lineage       *)
(* carried by wrapped tables (LineageMetadata, DataFrame).                 *)
(***************************************************************************)
EXTENDS Integers, Sequences, FiniteSets, TLC

VARIABLES
    gate,        \* one evaluation of _is_public_url: its inputs and its result
    call,        \* the activation of fetch_from_url: position and locals
    local_file,  \* content of the file at the dataset's local path
    trace,       \* gate checks and HTTP requests of the current fetch, in order
    manifest,    \* content of datasets.yaml: [inputs, outputs]
    fs,          \* the files on disk: absolute path -> [ino, content]
    frame,       \* the wrapped table in hand: data, lineage, strict_mode
    rd,          \* outcome of the last read_csv / read_dataset
    wr,          \* the activation of to_csv: position and locals
    clock,       \* the wall clock; also the number of mutating calls so far
    managers,    \* the DatasetsManager instances: whether open, and _data
    mcall,       \* the last call on a manager: arguments and error
    lin,         \* two LineageMetadata objects, the last call on them, its result
    tables,      \* the DataFrame instances the program holds, by variable name
    heap,        \* the LineageMetadata objects those instances reference
    tcall,       \* the last DataFrame operation: its name and operands
    environ,     \* the value of SUNSTONE_DATAFRAME_STRICT in the process
    look         \* the last find_dataset_by_location: arguments and result

gate_vars == <<gate>>
fetch_vars == <<call, local_file, trace>>
io_vars == <<manifest, fs, frame, rd, wr, clock>>
registry_vars == <<managers, mcall>>
table_vars == <<tables, heap, tcall, environ>>
lookup_vars == <<look>>
api_vars == <<managers, mcall, lin, tables, heap, tcall, environ, look>>
vars ==
    <<gate, call, local_file, trace, manifest, fs, frame, rd, wr, clock,
      managers, mcall, lin, tables, heap, tcall, environ, look>>

\* ------------------------------------------------------------------ bounds

\* longest address list getaddrinfo returns in the gate specification
MaxAddrs == 2
\* largest max_redirects argument passed to fetch_from_url
MaxRedirectsArg == 2
\* most mutating calls (to_csv, add_output_dataset, update_output_dataset)
\* in one run
MaxWrites == 2
\* most DataFrame operations in one run of the table specification
MaxCalls == 4

\* ------------------------------------------------------- URL Safety Gate

\* An address as ipaddress.ip_address sees it: valid is FALSE when
\* ip_address raises ValueError; the flags are the properties the code reads.
Addresses ==
    [valid : BOOLEAN, is_private : BOOLEAN, is_loopback : BOOLEAN,
     is_link_local : BOOLEAN]

Addr(v, p, l, ll) ==
    [valid |-> v, is_private |-> p, is_loopback |-> l, is_link_local |-> ll]

PublicAddr == Addr(TRUE, FALSE, FALSE, FALSE)
PrivateAddr == Addr(TRUE, TRUE, FALSE, FALSE)
LoopbackAddr == Addr(TRUE, TRUE, TRUE, FALSE)
LinkLocalAddr == Addr(TRUE, TRUE, FALSE, TRUE)

\* What socket.getaddrinfo does: returns a list of addresses ("ok"), raises
\* socket.gaierror, or raises something else (UnicodeError on a bad label).
Resolved(addrs) == [kind |-> "ok", addrs |-> addrs]
GaiError == [kind |-> "gaierror", addrs |-> <<>>]
OtherError == [kind |-> "error", addrs |-> <<>>]

\* A URL as written: scheme (case as written), host, path.
Url(s, h, p) == [scheme |-> s, host |-> h, path |-> p]

\* host for which urlparse(...).hostname raises ValueError ("http://[::1")
BadHost == "[::1"

\* urlparse lower-cases the scheme
lower(s) ==
    CASE s = "HTTP" -> "http"
      [] s = "HTTPS" -> "https"
      [] s = "Https" -> "https"
      [] OTHER -> s

urlparse(url) ==
    IF url.host = BadHost
    THEN [ok |-> FALSE, scheme |-> "", hostname |-> ""]
    ELSE [ok |-> TRUE, scheme |-> lower(url.scheme), hostname |-> url.host]

\* mutant: only the first resolved address is examined
RECURSIVE check_addrinfos_first_only(_)
check_addrinfos_first_only(addrs) ==
    IF addrs = <<>> THEN TRUE
    ELSE LET ip == Head(addrs) IN
         IF ~ip.valid THEN FALSE
         ELSE ~(ip.is_private \/ ip.is_loopback \/ ip.is_link_local)

\* the loop over addrinfos: FALSE at the first address that does not parse
\* or is private, loopback or link-local; TRUE when the list is exhausted
RECURSIVE check_addrinfos(_)
check_addrinfos(addrs) ==
    IF addrs = <<>> THEN TRUE
    ELSE LET ip == Head(addrs) IN
         IF ~ip.valid THEN FALSE
         ELSE IF ip.is_private \/ ip.is_loopback \/ ip.is_link_local THEN FALSE
         ELSE check_addrinfos(Tail(addrs))

\* res is the outcome of socket.getaddrinfo(parsed.hostname, None)
_is_public_url(url, res) ==
    LET parsed == urlparse(url) IN
    IF ~parsed.ok THEN FALSE
    ELSE IF parsed.scheme \notin {"http", "https"} THEN FALSE
    ELSE IF parsed.hostname = "" THEN FALSE
    ELSE IF res.kind = "gaierror" THEN FALSE
    ELSE IF res.kind = "error" THEN FALSE
    ELSE check_addrinfos(res.addrs)

\* ---- specification of the gate alone

RECURSIVE SeqsUpTo(_, _)
SeqsUpTo(S, n) ==
    IF n = 0 THEN {<<>>}
    ELSE LET shorter == SeqsUpTo(S, n - 1) IN
         shorter \cup {Append(s, x) : s \in shorter, x \in S}

GateSchemes == {"http", "https", "HTTPS", "ftp", "file"}
GateHosts == {"", "example.com", BadHost}
GateUrls == {Url(s, h, "/data.csv") : s \in GateSchemes, h \in GateHosts}
GateResolutions ==
    {Resolved(a) : a \in SeqsUpTo(Addresses, MaxAddrs)} \cup {GaiError, OtherError}

GateIdle == gate = [pc |-> "off", url |-> Url("", "", ""), res |-> GaiError,
                    result |-> FALSE]

GateInit ==
    \E u \in GateUrls, r \in GateResolutions :
        gate = [pc |-> "called", url |-> u, res |-> r, result |-> FALSE]

GateReturn ==
    /\ gate.pc = "called"
    /\ gate' = [gate EXCEPT !.pc = "returned",
                            !.result = _is_public_url(gate.url, gate.res)]
    /\ UNCHANGED <<fetch_vars, io_vars, api_vars>>

\* ------------------------------------------------------- Remote Fetcher

Absent == "absent"

NoUrl == Url("", "", "")

SourceUrls ==
    {Url("https", "pub", "/a"), Url("https", "mixed", "/a"),
     Url("http", "flaky", "/a"), Url("file", "", "/a")}

\* what the resolver may answer for a host at the moment of a gate check
Dns(host) ==
    CASE host = "pub" -> {Resolved(<<PublicAddr>>)}
      [] host = "mixed" -> {Resolved(<<PublicAddr, PrivateAddr>>)}
      [] host = "flaky" -> {Resolved(<<PublicAddr>>), Resolved(<<LoopbackAddr>>), GaiError}
      [] OTHER -> {GaiError}

\* the Location header of a response: absent, empty, absolute or relative
Loc(k, u, p) == [kind |-> k, url |-> u, path |-> p]
Locations ==
    {Loc("absent", NoUrl, ""), Loc("empty", NoUrl, ""), Loc("relative", NoUrl, "/b")}
    \cup {Loc("absolute", u, "") : u \in SourceUrls}

\* a response of requests.get(..., allow_redirects=False)
Resp(r, l, s) == [is_redirect |-> r, location |-> l, status_ok |-> s]
NoResponse == Resp(FALSE, Loc("absent", NoUrl, ""), FALSE)
Responses ==
    {Resp(TRUE, l, TRUE) : l \in Locations}
    \cup {Resp(FALSE, Loc("absent", NoUrl, ""), s) : s \in BOOLEAN}

\* requests.get either returns a response or raises
RequestErrors == {"FetchTimeout", "FetchError"}

urljoin(current_url, loc) ==
    IF loc.kind = "absolute" THEN loc.url
    ELSE [current_url EXCEPT !.path = loc.path]

GateEvent(u, ok) == [op |-> "gate", url |-> u, ok |-> ok]
GetEvent(u) == [op |-> "get", url |-> u, ok |-> TRUE]

CallIdle ==
    [pc |-> "idle", has_source |-> FALSE, url |-> NoUrl, force |-> FALSE,
     max_redirects |-> 0, current_url |-> NoUrl, response |-> NoResponse,
     redirect_count |-> 0, result |-> "none", local_before |-> Absent]

Raise(c, err) == [c EXCEPT !.pc = "done", !.result = err]

FetchIdle == call = CallIdle /\ local_file = Absent /\ trace = <<>>

FetchInit ==
    /\ call = CallIdle
    /\ local_file \in {Absent, "old"}
    /\ trace = <<>>

\* mutant: the sense of force is inverted in the cache-hit short-circuit
SkipFetch_force_inverted(exists, force) == exists /\ force

\* "Skip if file exists and not forcing"
SkipFetch(exists, force) == exists /\ ~force

\* fetch_from_url up to the cache-hit return
FetchCall(has_source, url, force, max_redirects) ==
    /\ call.pc \in {"idle", "done"}
    /\ LET c == [CallIdle EXCEPT !.has_source = has_source, !.url = url,
                                 !.force = force,
                                 !.max_redirects = max_redirects,
                                 !.local_before = local_file]
       IN call' =
            IF ~has_source THEN Raise(c, "NoSourceUrl")
            ELSE IF SkipFetch(local_file # Absent, force)
                 THEN [c EXCEPT !.pc = "done", !.result = "returned"]
                 ELSE [c EXCEPT !.pc = "validate"]
    /\ trace' = <<>>
    /\ UNCHANGED <<local_file, gate_vars, io_vars, api_vars>>

\* the gate check of the source URL
ValidateUrl ==
    /\ call.pc = "validate"
    /\ \E res \in Dns(call.url.host) :
        LET ok == _is_public_url(call.url, res) IN
        /\ trace' = Append(trace, GateEvent(call.url, ok))
        /\ call' = IF ~ok THEN Raise(call, "UrlNotAllowed")
                   ELSE [call EXCEPT !.pc = "request", !.current_url = call.url]
    /\ UNCHANGED <<local_file, gate_vars, io_vars, api_vars>>

\* the first requests.get
RequestInitial ==
    /\ call.pc = "request"
    /\ trace' = Append(trace, GetEvent(call.current_url))
    /\ \/ \E e \in RequestErrors : call' = Raise(call, e)
       \/ \E r \in Responses :
            call' = [call EXCEPT !.pc = "loop", !.response = r,
                                 !.redirect_count = 0]
    /\ UNCHANGED <<local_file, gate_vars, io_vars, api_vars>>

\* mutant: the loop runs once more than max_redirects allows
LoopCondition_off_by_one(response, redirect_count, max_redirects) ==
    response.is_redirect /\ redirect_count <= max_redirects

\* "while response.is_redirect and redirect_count < max_redirects"
LoopCondition(response, redirect_count, max_redirects) ==
    response.is_redirect /\ redirect_count < max_redirects

\* mutant: the verdict of the gate on a redirect target is not acted upon
RedirectAllowed_unchecked(ok) == TRUE

\* "if not _is_public_url(redirect_url): raise"
RedirectAllowed(ok) == ok

\* mutant: a missing Location header is not detected
LocationMissing_never(loc) == FALSE

\* "redirect_url = response.headers.get("Location"); if not redirect_url"
LocationMissing(loc) == loc.kind \in {"absent", "empty"}

\* the loop body up to the decision to follow the redirect
FollowRedirect ==
    /\ call.pc = "loop"
    /\ LoopCondition(call.response, call.redirect_count, call.max_redirects)
    /\ LET loc == call.response.location IN
       IF LocationMissing(loc)
       THEN /\ call' = Raise(call, "MissingLocationHeader")
            /\ trace' = trace
       ELSE LET redirect_url == urljoin(call.current_url, loc) IN
            \E res \in Dns(redirect_url.host) :
                LET ok == _is_public_url(redirect_url, res) IN
                /\ trace' = Append(trace, GateEvent(redirect_url, ok))
                /\ call' = IF ~RedirectAllowed(ok)
                           THEN Raise(call, "UrlNotAllowed")
                           ELSE [call EXCEPT !.pc = "request_redirect",
                                             !.current_url = redirect_url]
    /\ UNCHANGED <<local_file, gate_vars, io_vars, api_vars>>

\* the requests.get of the loop body and the increment of redirect_count
RequestRedirect ==
    /\ call.pc = "request_redirect"
    /\ trace' = Append(trace, GetEvent(call.current_url))
    /\ \/ \E e \in RequestErrors : call' = Raise(call, e)
       \/ \E r \in Responses :
            call' = [call EXCEPT !.pc = "loop", !.response = r,
                                 !.redirect_count = call.redirect_count + 1]
    /\ UNCHANGED <<local_file, gate_vars, io_vars, api_vars>>

\* how the write of the body ends: done, or failed before or after the
\* file was opened for writing (which truncates it)
WriteOutcomes == {"written", "open_failed", "write_failed"}

\* mutant: a response that is still a redirect when the loop ends is waited
\* on instead of being reported
Finish_waits_on_redirect ==
    /\ call.pc = "loop"
    /\ ~LoopCondition(call.response, call.redirect_count, call.max_redirects)
    /\ IF call.response.is_redirect
       THEN call' = call /\ local_file' = local_file
       ELSE IF ~call.response.status_ok
       THEN call' = Raise(call, "FetchError") /\ local_file' = local_file
       ELSE /\ local_file' = "body"
            /\ call' = [call EXCEPT !.pc = "done", !.result = "returned"]
    /\ UNCHANGED <<trace, gate_vars, io_vars, api_vars>>

\* after the loop: too many redirects, HTTP status, write of the body
Finish ==
    /\ call.pc = "loop"
    /\ ~LoopCondition(call.response, call.redirect_count, call.max_redirects)
    /\ IF call.response.is_redirect
       THEN call' = Raise(call, "TooManyRedirects") /\ local_file' = local_file
       ELSE IF ~call.response.status_ok
       THEN call' = Raise(call, "FetchError") /\ local_file' = local_file
       ELSE \E w \in WriteOutcomes :
            CASE w = "written" ->
                    /\ local_file' = "body"
                    /\ call' = [call EXCEPT !.pc = "done", !.result = "returned"]
              [] w = "open_failed" ->
                    /\ local_file' = local_file
                    /\ call' = Raise(call, "OSError")
              [] w = "write_failed" ->
                    /\ local_file' = "truncated"
                    /\ call' = Raise(call, "OSError")
    /\ UNCHANGED <<trace, gate_vars, io_vars, api_vars>>

\* ------------------------------------------------------- paths and files

\* A path string: whether it starts with "/" and its segments as written.
P(abs, segs) == [abs |-> abs, segs |-> segs]
RelPath(segs) == P(FALSE, segs)
AbsPath(segs) == P(TRUE, segs)

\* DatasetsManager.project_path, already resolved
project_path == AbsPath(<<"proj">>)

\* pathlib.Path(s) drops the "." segments of s; str() of it is that path
RECURSIVE DropDots(_)
DropDots(segs) ==
    IF segs = <<>> THEN <<>>
    ELSE IF Head(segs) = "." THEN DropDots(Tail(segs))
    ELSE <<Head(segs)>> \o DropDots(Tail(segs))

Path(location) == P(location.abs, DropDots(location.segs))

\* Path.relative_to is lexical: it succeeds when other is a prefix
is_relative_to(p, other) ==
    /\ p.abs = other.abs
    /\ Len(other.segs) <= Len(p.segs)
    /\ SubSeq(p.segs, 1, Len(other.segs)) = other.segs

relative_to(p, other) ==
    RelPath(SubSeq(p.segs, Len(other.segs) + 1, Len(p.segs)))

\* base / p
joinpath(base, p) == IF p.abs THEN p ELSE P(base.abs, base.segs \o p.segs)

\* Path.resolve() on a disk without symbolic links: ".." pops a segment
RECURSIVE Collapse(_, _)
Collapse(done, rest) ==
    IF rest = <<>> THEN done
    ELSE IF Head(rest) = ".."
    THEN Collapse(IF done = <<>> THEN <<>> ELSE SubSeq(done, 1, Len(done) - 1),
                  Tail(rest))
    ELSE Collapse(Append(done, Head(rest)), Tail(rest))

resolve(p) == AbsPath(Collapse(<<>>, DropDots(p.segs)))

\* Path.name: the final segment
name_of(p) == IF p.segs = <<>> THEN "" ELSE p.segs[Len(p.segs)]

\* a file: its inode (0: there is no file) and its content
File(ino, content) == [ino |-> ino, content |-> content]
NoFile == File(0, "none")

exists(disk, p) == p.segs \in DOMAIN disk /\ disk[p.segs].ino # 0

\* Path.samefile, called on existing paths only
samefile(disk, a, b) == disk[a.segs].ino = disk[b.segs].ino

\* the absolute paths the model's locations resolve to
FsPaths ==
    {<<"proj", "inputs", "a.csv">>, <<"proj", "outputs", "x.csv">>,
     <<"proj", "outputs", "y.csv">>, <<"proj", "data", "x.csv">>,
     <<"proj", "old", "x.csv">>}

EmptyDisk == [p \in FsPaths |-> NoFile]

MaxIno(disk) ==
    CHOOSE n \in {disk[p].ino : p \in DOMAIN disk} :
        \A p \in DOMAIN disk : disk[p].ino <= n

\* open(path, "w") and write: a new file, or new content for every path
\* that shares the inode of an existing one
write_file(disk, p, content) ==
    IF exists(disk, p)
    THEN [q \in DOMAIN disk |->
            IF disk[q].ino = disk[p.segs].ino
            THEN File(disk[q].ino, content) ELSE disk[q]]
    ELSE [disk EXCEPT ![p.segs] = File(MaxIno(disk) + 1, content)]

\* ------------------------------------------------------- Manifest Store

\* Python's None where a string is expected
None == "<None>"

NoLineage ==
    [present |-> FALSE, content_hash |-> None, created_at |-> 0, sources |-> <<>>]

\* an entry of datasets.yaml (a dict of _data["inputs"] or _data["outputs"])
Entry(name, slug, location, fields, publish, has_url, lineage) ==
    [name |-> name, slug |-> slug, location |-> location, fields |-> fields,
     publish |-> publish, has_url |-> has_url, lineage |-> lineage]

FieldSchema(name, type) == [name |-> name, type |-> type]

\* DatasetMetadata; dataset_type "none" stands for Python's None
DatasetMetadata(name, slug, location, fields, has_url, publish, dataset_type) ==
    [name |-> name, slug |-> slug, location |-> location, fields |-> fields,
     has_url |-> has_url, publish |-> publish, dataset_type |-> dataset_type]

NoDataset == DatasetMetadata(None, None, RelPath(<<>>), <<>>, FALSE, FALSE, "none")

IsNone(dataset) == dataset.dataset_type = "none"

_parse_dataset(dataset_data, dataset_type) ==
    DatasetMetadata(dataset_data.name, dataset_data.slug, dataset_data.location,
                    dataset_data.fields, dataset_data.has_url,
                    dataset_data.publish, dataset_type)

\* DatasetsManager._load: the parsed file
_load(file) == file

entries_of(data, dtype) == IF dtype = "input" THEN data.inputs ELSE data.outputs

search_types(dataset_type) ==
    IF dataset_type = None THEN <<"input", "output">> ELSE <<dataset_type>>

\* mutant: the file-name fallback does not ask whether the entry's own
\* file exists
location_matches_by_name(disk, dataset_location, location) ==
    LET location_path == Path(location)
        location_abs == resolve(joinpath(project_path, location_path))
        dataset_loc == Path(dataset_location)
        dataset_abs == resolve(joinpath(project_path, dataset_loc))
    IN  \/ dataset_location = location
        \/ dataset_abs = location_abs
        \/ /\ exists(disk, location_abs) /\ exists(disk, dataset_abs)
           /\ samefile(disk, location_abs, dataset_abs)
        \/ /\ exists(disk, location_abs)
           /\ name_of(dataset_loc) = name_of(location_path)
           /\ \E subdir \in {"inputs", "outputs", "data"} :
                    LET candidate ==
                            joinpath(project_path,
                                     RelPath(<<subdir, name_of(dataset_loc)>>))
                    IN exists(disk, candidate)
                       /\ samefile(disk, location_abs, candidate)

\* the four resolution strategies, tried on one manifest entry
location_matches(disk, dataset_location, location) ==
    LET location_path == Path(location)
        location_abs == resolve(joinpath(project_path, location_path))
        dataset_loc == Path(dataset_location)
        dataset_abs == resolve(joinpath(project_path, dataset_loc))
        in_root == joinpath(project_path, RelPath(<<name_of(dataset_loc)>>))
    IN  \/ dataset_location = location
        \/ dataset_abs = location_abs
        \/ /\ exists(disk, location_abs) /\ exists(disk, dataset_abs)
           /\ samefile(disk, location_abs, dataset_abs)
        \/ /\ exists(disk, location_abs) /\ ~exists(disk, dataset_abs)
           /\ name_of(dataset_loc) = name_of(location_path)
           /\ \/ exists(disk, in_root) /\ samefile(disk, location_abs, in_root)
              \/ \E subdir \in {"inputs", "outputs", "data"} :
                    LET candidate ==
                            joinpath(project_path,
                                     RelPath(<<subdir, name_of(dataset_loc)>>))
                    IN exists(disk, candidate)
                       /\ samefile(disk, location_abs, candidate)

\* lines 191-201: the requested location as a project-relative string
normalize_location(location) ==
    LET location_path == Path(location) IN
    IF location_path.abs /\ is_relative_to(location_path, project_path)
    THEN relative_to(location_path, project_path)
    ELSE location_path

\* index of the first TRUE of a sequence of booleans, 0 if none
FirstIndex(hits) ==
    LET at == {i \in DOMAIN hits : hits[i]} IN
    IF at = {} THEN 0 ELSE CHOOSE i \in at : \A j \in at : i <= j

\* the first hit over the searched types, in their order; hits[t][i] tells
\* whether entry i of type types[t] matches
first_in_types(data, types, hits) ==
    LET idx == [t \in DOMAIN types |-> FirstIndex(hits[t])]
        ts == {t \in DOMAIN types : idx[t] # 0}
    IN  IF ts = {} THEN NoDataset
        ELSE LET t == CHOOSE x \in ts : \A y \in ts : x <= y
             IN _parse_dataset(entries_of(data, types[t])[idx[t]], types[t])

\* mutant: the location is compared as it was passed, by string equality only
find_dataset_by_location_exact(data, disk, location, dataset_type) ==
    LET types == search_types(dataset_type)
        hits == [t \in DOMAIN types |->
                    [i \in DOMAIN entries_of(data, types[t]) |->
                        entries_of(data, types[t])[i].location = location]]
    IN first_in_types(data, types, hits)

find_dataset_by_location(data, disk, location, dataset_type) ==
    LET loc == normalize_location(location)
        types == search_types(dataset_type)
        hits == [t \in DOMAIN types |->
                    [i \in DOMAIN entries_of(data, types[t]) |->
                        location_matches(disk,
                            entries_of(data, types[t])[i].location, loc)]]
    IN first_in_types(data, types, hits)

find_dataset_by_slug(data, slug, dataset_type) ==
    LET types == search_types(dataset_type)
        hits == [t \in DOMAIN types |->
                    [i \in DOMAIN entries_of(data, types[t]) |->
                        entries_of(data, types[t])[i].slug = slug]]
    IN first_in_types(data, types, hits)

get_absolute_path(location) ==
    LET location_path == Path(location) IN
    IF location_path.abs THEN location_path
    ELSE resolve(joinpath(project_path, location_path))

\* mutant: the slug check of add_output_dataset is missing
add_output_dataset_unchecked(data, name, slug, location, fields, publish) ==
    [error |-> "none",
     data |-> [data EXCEPT !.outputs =
                Append(@, Entry(name, slug, location, fields, publish, FALSE,
                                NoLineage))]]

\* mutant: a slug is refused only when reused at the same location
add_output_dataset_same_location(data, name, slug, location, fields, publish) ==
    IF \E i \in DOMAIN data.outputs :
            data.outputs[i].slug = slug /\ data.outputs[i].location = location
    THEN [error |-> "DuplicateSlug", data |-> data]
    ELSE add_output_dataset_unchecked(data, name, slug, location, fields, publish)

\* mutant: a slug is refused when any entry, input or output, uses it
add_output_dataset_any_type(data, name, slug, location, fields, publish) ==
    IF ~IsNone(find_dataset_by_slug(data, slug, None))
    THEN [error |-> "DuplicateSlug", data |-> data]
    ELSE add_output_dataset_unchecked(data, name, slug, location, fields, publish)

\* add_output_dataset up to the append: the error raised, and _data afterwards
add_output_dataset(data, name, slug, location, fields, publish) ==
    IF ~IsNone(find_dataset_by_slug(data, slug, "output"))
    THEN [error |-> "DuplicateSlug", data |-> data]
    ELSE [error |-> "none",
          data |-> [data EXCEPT !.outputs =
                     Append(@, Entry(name, slug, location, fields, publish,
                                     FALSE, NoLineage))]]

\* ------------------------------------------------------- wrapped tables

Col(name, dtype) == [name |-> name, dtype |-> dtype]

\* the columns pandas gives a table of the given content
Columns(content) ==
    CASE content = "c1" -> <<Col("k", "int64"), Col("v", "object")>>
      [] content = "c2" ->
            <<Col("x", "float64"), Col("b", "bool"), Col("t", "datetime64")>>
      [] OTHER -> <<Col("k", "int64")>>

Table(content) == [content |-> content, columns |-> Columns(content)]

\* the dtype tests of _infer_field_schema, in their order
field_type(dtype) ==
    IF dtype = "int64" THEN "integer"
    ELSE IF dtype = "float64" THEN "number"
    ELSE IF dtype = "bool" THEN "boolean"
    ELSE IF dtype = "datetime64" THEN "datetime"
    ELSE "string"

_infer_field_schema(data) ==
    [i \in DOMAIN data.columns |->
        FieldSchema(data.columns[i].name, field_type(data.columns[i].dtype))]

\* mutant: the digest ignores the content
compute_dataframe_hash_constant(data) == <<"sha256", "c1">>

\* sha256 of the pickled table: equal content, equal digest
compute_dataframe_hash(data) == <<"sha256", data.content>>

Op(op, arg) == [op |-> op, arg |-> arg]

\* a DataFrame: data, lineage.sources, lineage.operations, strict_mode
Frame(data, sources, operations, strict_mode) ==
    [alive |-> TRUE, data |-> data, sources |-> sources,
     operations |-> operations, strict_mode |-> strict_mode]

NoFrame ==
    [alive |-> FALSE, data |-> Table("none"), sources |-> <<>>,
     operations |-> <<>>, strict_mode |-> FALSE]

\* SUNSTONE_DATAFRAME_STRICT: .lower() in ("1", "true")
_get_default_strict_mode(env) == env \in {"1", "true", "TRUE", "True"}

\* DataFrame.__init__: strict is None, "true" or "false"
strict_mode_of(strict, env) ==
    IF strict = None THEN _get_default_strict_mode(env) ELSE strict = "true"

\* ---------------------------------------------------- Policy Gate: reads

ReadResult(result, fr, disk, file) ==
    [result |-> result, frame |-> fr, fs |-> disk, manifest |-> file]

\* mutant: in relaxed mode a read of an unregistered location registers it
on_unregistered_read_autoregister(data, location, strict, env) ==
    IF strict = "true" \/ (strict = None /\ _get_default_strict_mode(env))
    THEN [error |-> "DatasetNotFound", data |-> data]
    ELSE [error |-> "DatasetNotFound",
          data |-> [data EXCEPT !.inputs =
                     Append(@, Entry("auto", "auto", location, <<>>, FALSE,
                                     FALSE, NoLineage))]]

\* read_csv, dataset is None: the error raised and _data afterwards
on_unregistered_read(data, location, strict, env) ==
    IF strict = "true" \/ (strict = None /\ _get_default_strict_mode(env))
    THEN [error |-> "DatasetNotFound", data |-> data]
    ELSE [error |-> "DatasetNotFound", data |-> data]

\* the part read_csv and read_dataset share: fetch if the file is missing,
\* parse it, wrap it.  fetched: whether fetch_from_url, if called, succeeds.
load_registered(file, disk, fr, dataset, requested_path, strict, env, fetch_from_url, fetched, opname) ==
    LET local_path == get_absolute_path(dataset.location)
        need_fetch == ~exists(disk, requested_path) /\ fetch_from_url
        download == need_fetch /\ dataset.has_url /\ ~exists(disk, local_path)
        disk2 == IF download /\ fetched
                 THEN write_file(disk, local_path, "c1") ELSE disk
        absolute_path == IF need_fetch THEN local_path ELSE requested_path
    IN  IF need_fetch /\ ~dataset.has_url
        THEN ReadResult("FileNotFound", fr, disk, file)
        ELSE IF download /\ ~fetched
        THEN ReadResult("FetchFailed", fr, disk, file)
        ELSE IF ~exists(disk2, absolute_path)
        THEN ReadResult("FileNotFound", fr, disk2, file)
        ELSE IF disk2[absolute_path.segs].content = "truncated"
        THEN ReadResult("EmptyDataError", fr, disk2, file)
        ELSE ReadResult("ok",
                Frame(Table(disk2[absolute_path.segs].content), <<dataset>>,
                      <<Op(opname, dataset.slug)>>, strict_mode_of(strict, env)),
                disk2, file)

read_dataset(file, disk, fr, slug, strict, env, fetch_from_url, fetched) ==
    LET data == _load(file)
        dataset == find_dataset_by_slug(data, slug, None)
    IN  IF IsNone(dataset)
        THEN ReadResult("DatasetNotFound", fr, disk, file)
        ELSE load_registered(file, disk, fr, dataset,
                             get_absolute_path(dataset.location), strict, env,
                             fetch_from_url, fetched, "read_dataset")

\* a file name with an extension
has_suffix(segment) == segment \in {"a.csv", "x.csv", "y.csv"}

\* "Slugs don't contain path separators" and have no suffix
is_slug(location) ==
    /\ ~location.abs
    /\ Len(location.segs) = 1
    /\ ~has_suffix(location.segs[1])

read_csv(file, disk, fr, location, strict, env, fetch_from_url, fetched) ==
    IF is_slug(location)
    THEN read_dataset(file, disk, fr, location.segs[1], strict, env,
                      fetch_from_url, fetched)
    ELSE LET data == _load(file)
             dataset == find_dataset_by_location(data, disk, location, None)
         IN IF IsNone(dataset)
            THEN LET r == on_unregistered_read(data, location, strict, env)
                 IN ReadResult(r.error, fr, disk, r.data)
            ELSE load_registered(file, disk, fr, dataset,
                                 get_absolute_path(location), strict, env,
                                 fetch_from_url, fetched, "read_csv")

\* --------------------------------------------------- Policy Gate: writes

\* mutant: strict mode is not consulted
unregistered_write_policy_never_strict(strict_mode, slug, name) ==
    IF slug = None \/ name = None THEN "MissingRegistrationFields"
    ELSE "register"

\* mutant: the registration fields are required only when both are missing
unregistered_write_policy_and(strict_mode, slug, name) ==
    IF strict_mode THEN "UnregisteredOutput"
    ELSE IF slug = None /\ name = None THEN "MissingRegistrationFields"
    ELSE "register"

\* to_csv, dataset is None: the error to raise, or "register"
unregistered_write_policy(strict_mode, slug, name) ==
    IF strict_mode THEN "UnregisteredOutput"
    ELSE IF slug = None \/ name = None THEN "MissingRegistrationFields"
    ELSE "register"

\* DatasetsManager._save: the file holds _data
_save(data) == data

\* LineageMetadata.to_dict: the sources as persisted
to_dict_sources(sources) ==
    [i \in DOMAIN sources |->
        [slug |-> sources[i].slug, name |-> sources[i].name,
         location |-> sources[i].location]]

\* DatasetsManager.update_output_lineage: the lineage block of the output
\* gets the fingerprint and the sources; created_at moves only when the
\* fingerprint differs from the persisted one
update_output_lineage(data, slug, sources, content_hash, now) ==
    LET i == FirstIndex([k \in DOMAIN data.outputs |->
                            data.outputs[k].slug = slug])
    IN  IF i = 0 THEN [error |-> "EntryNotFound", data |-> data]
        ELSE LET old == data.outputs[i].lineage
                 created_at ==
                    IF old.present /\ old.content_hash = content_hash
                    THEN old.created_at ELSE now
             IN [error |-> "none",
                 data |-> [data EXCEPT !.outputs[i].lineage =
                            [present |-> TRUE, content_hash |-> content_hash,
                             created_at |-> created_at,
                             sources |-> to_dict_sources(sources)]]]

\* LineageMetadata.add_operation
add_operation(operations, description) == Append(operations, description)

WrIdle ==
    [pc |-> "idle", location |-> RelPath(<<>>), slug |-> None, name |-> None,
     publish |-> FALSE, dataset |-> NoDataset,
     data |-> [inputs |-> <<>>, outputs |-> <<>>], found |-> FALSE,
     write |-> "none", result |-> "none"]

RdIdle ==
    [op |-> "none", arg |-> RelPath(<<>>), found |-> FALSE,
     strict_mode |-> FALSE, result |-> "none"]

\* ------------------------------------------------------ LineageMetadata

\* a LineageMetadata: sources, operations, project_path (None if unset)
Lineage(sources, operations, path) ==
    [sources |-> sources, operations |-> operations, project_path |-> path]

\* "dataset in sources": equality of dataclass instances, field by field
contains(sources, dataset) == \E i \in DOMAIN sources : sources[i] = dataset

\* LineageMetadata.add_source: self afterwards
add_source(self, dataset) ==
    IF ~contains(self.sources, dataset)
    THEN [self EXCEPT !.sources = Append(@, dataset)]
    ELSE self

RECURSIVE append_missing(_, _)
\* merge, the loop: "for source in other.sources: if source not in ..."
append_missing(merged_sources, rest) ==
    IF rest = <<>> THEN merged_sources
    ELSE append_missing(
            IF ~contains(merged_sources, Head(rest))
            THEN Append(merged_sources, Head(rest)) ELSE merged_sources,
            Tail(rest))

\* Python's "x or y" on Optional[str]
or_else(x, y) == IF x = None \/ x = "" THEN y ELSE x

\* mutant: merged.sources is self.sources itself, not a copy
merge_no_copy(self, other) ==
    LET all == append_missing(self.sources, other.sources)
    IN [self |-> [self EXCEPT !.sources = all], other |-> other,
        merged |-> Lineage(all, <<>>,
                           or_else(self.project_path, other.project_path))]

\* mutant: the sources of other are appended without the membership test
merge_concat(self, other) ==
    [self |-> self, other |-> other,
     merged |-> Lineage(self.sources \o other.sources, <<>>,
                        or_else(self.project_path, other.project_path))]

\* LineageMetadata.merge: self and other afterwards, and the object returned
merge(self, other) ==
    [self |-> self, other |-> other,
     merged |-> Lineage(append_missing(self.sources, other.sources), <<>>,
                        or_else(self.project_path, other.project_path))]

LinIdle ==
    [a |-> Lineage(<<>>, <<>>, None), b |-> Lineage(<<>>, <<>>, None),
     m |-> Lineage(<<>>, <<>>, None), op |-> "none", x |-> "none",
     y |-> "none", arg |-> NoDataset]

\* two lineages as LineageMetadata(project_path=...) constructs them
LinInit ==
    \E pa \in {None, "proj"}, pb \in {None, "other"} :
        lin = [LinIdle EXCEPT !.a.project_path = pa, !.b.project_path = pb]

\* lin[x].add_source(dataset)
LinAddSource(x, dataset) ==
    /\ lin' = [lin EXCEPT ![x] = add_source(@, dataset), !.op = "add_source",
                          !.x = x, !.y = "none", !.arg = dataset]
    /\ UNCHANGED <<gate_vars, fetch_vars, io_vars, registry_vars, table_vars, lookup_vars>>

\* lin.m = lin[x].merge(lin[y])
LinMerge(x, y) ==
    /\ LET r == merge(lin[x], lin[y])
           after == [[lin EXCEPT ![y] = r.other] EXCEPT ![x] =
                        IF x = y /\ r.self = lin[x] THEN r.other ELSE r.self]
       IN lin' = [after EXCEPT !.m = r.merged, !.op = "merge", !.x = x,
                               !.y = y, !.arg = NoDataset]
    /\ UNCHANGED <<gate_vars, fetch_vars, io_vars, registry_vars, table_vars, lookup_vars>>

\* ------------------------------------------- DataFrame and its lineage

\* the variables that hold DataFrame instances; results are bound to "t3"
TableIds == {"t1", "t2", "t3"}

\* identities of LineageMetadata objects; 0 is no object
ObjIds == {1, 2, 3}

NoTable == [alive |-> FALSE, lineage |-> 0, strict_mode |-> FALSE]

\* DataFrame.__init__: the instance references the lineage object it is given
Instance(lineage, strict_mode) ==
    [alive |-> TRUE, lineage |-> lineage, strict_mode |-> strict_mode]

BlankLineage == Lineage(<<>>, <<>>, None)

\* operation=None
NoOperation == <<>>

TcallIdle ==
    [op |-> "none", x |-> "none", others |-> <<>>, r |-> "none", strict |-> None,
     n |-> 0]

\* the record of the call that is being made
Called(op, x, others, r) ==
    [op |-> op, x |-> x, others |-> others, r |-> r, strict |-> None,
     n |-> tcall.n + 1]

TablesIdle ==
    /\ tables = [t \in TableIds |-> NoTable]
    /\ heap = [o \in ObjIds |-> BlankLineage]
    /\ tcall = TcallIdle
    /\ environ = ""

\* the objects referenced by the instances held in variables other than slot
referenced(tbls, slot) ==
    {tbls[t].lineage : t \in {u \in TableIds : u # slot /\ tbls[u].alive}}

\* the identity of an object allocated while slot is being rebound
new_object(tbls, slot) ==
    CHOOSE o \in ObjIds \ referenced(tbls, slot) :
        \A q \in ObjIds \ referenced(tbls, slot) : o <= q

\* objects no instance references are reclaimed
collect(tbls, hp) ==
    [o \in ObjIds |-> IF o \in referenced(tbls, "none") THEN hp[o]
                      ELSE BlankLineage]

\* variable r is bound to a new instance that references object o, whose
\* state is value
Bind(record, r, o, value, strict_mode) ==
    LET tbls == [tables EXCEPT ![r] = Instance(o, strict_mode)]
    IN  /\ tables' = tbls
        /\ heap' = collect(tbls, [heap EXCEPT ![o] = value])
        /\ tcall' = record

lineage_of(t) == heap[tables[t].lineage]

\* the working directory of the process
cwd == "proj"

\* DataFrame.__init__, "Set project path": the state of the lineage object
\* the instance references once it is constructed
set_project_path(lineage, path) ==
    IF path # None THEN [lineage EXCEPT !.project_path = path]
    ELSE IF lineage.project_path = None THEN [lineage EXCEPT !.project_path = cwd]
    ELSE lineage

\* _NON_TRACKING_METHODS
_NON_TRACKING_METHODS ==
    {"copy", "reset_index", "set_index", "reindex", "astype", "infer_objects",
     "rename", "rename_axis", "T", "transpose"}

\* callable(attr) for the attributes forwarded to pandas
callable(name) == name # "T"

\* mutant: the sources of the parent are not carried over
_wrap_result_without_sources(self, operation) ==
    Lineage(<<>>,
            IF operation # NoOperation
            THEN add_operation(self.operations, operation) ELSE self.operations,
            self.project_path)

\* _wrap_result, result a pandas DataFrame: the lineage of the new instance
_wrap_result(self, operation) ==
    Lineage(self.sources,
            IF operation # NoOperation
            THEN add_operation(self.operations, operation) ELSE self.operations,
            self.project_path)

\* __getattr__: the operation recorded for a forwarded attribute
forwarded_operation(name) ==
    IF callable(name)
    THEN IF name \in _NON_TRACKING_METHODS THEN NoOperation ELSE <<name>>
    ELSE NoOperation

Numeral == <<"0", "1", "2", "3", "4", "5", "6", "7", "8", "9">>

\* str(n) for the counts that appear in the summaries
str(n) == Numeral[n + 1]

RECURSIVE total_sources(_)
\* sum(len(df.lineage.sources) for df in ...)
total_sources(ts) ==
    IF ts = <<>> THEN 0
    ELSE Len(lineage_of(Head(ts)).sources) + total_sources(Tail(ts))

RECURSIVE merge_all(_, _)
\* concat: "for other in others: combined_lineage = combined_lineage.merge(...)"
merge_all(combined_lineage, others) ==
    IF others = <<>> THEN combined_lineage
    ELSE merge_all(merge(combined_lineage, lineage_of(Head(others))).merged,
                   Tail(others))

\* DataFrame(data, strict=strict): a new instance with an empty lineage
NewTable(t, strict) ==
    /\ tcall.n < MaxCalls
    /\ Bind([Called("__init__", "none", <<>>, t) EXCEPT !.strict = strict], t,
            new_object(tables, t), set_project_path(BlankLineage, None),
            strict_mode_of(strict, environ))
    /\ UNCHANGED <<gate_vars, fetch_vars, io_vars, registry_vars, lin, environ,
                   lookup_vars>>

\* DataFrame.read_csv of a registered dataset: the lineage built at the end
ReadTable(t, dataset, strict) ==
    /\ tcall.n < MaxCalls
    /\ Bind([Called("read_csv", "none", <<>>, t) EXCEPT !.strict = strict], t,
            new_object(tables, t),
            [add_source(set_project_path(BlankLineage, cwd), dataset) EXCEPT
                !.operations = add_operation(@, <<"read_csv", dataset.slug>>)],
            strict_mode_of(strict, environ))
    /\ UNCHANGED <<gate_vars, fetch_vars, io_vars, registry_vars, lin, environ,
                   lookup_vars>>

\* mutant: the result carries the mode of the right operand
TableMerge_right_mode(kind, x, y, r) ==
    /\ tcall.n < MaxCalls
    /\ tables[x].alive /\ tables[y].alive
    /\ LET merged_lineage == merge(lineage_of(x), lineage_of(y)).merged
           summary == <<kind, str(Len(lineage_of(x).sources)),
                        str(Len(lineage_of(y).sources))>>
       IN Bind(Called(kind, x, <<y>>, r), r,
               new_object(tables, r),
               set_project_path(
                   [merged_lineage EXCEPT !.operations = add_operation(@, summary)],
                   lineage_of(x).project_path),
               tables[y].strict_mode)
    /\ UNCHANGED <<gate_vars, fetch_vars, io_vars, registry_vars, lin, environ,
                   lookup_vars>>

\* r = x.merge(y) or r = x.join(y), kind naming the method
TableMerge(kind, x, y, r) ==
    /\ tcall.n < MaxCalls
    /\ tables[x].alive /\ tables[y].alive
    /\ LET merged_lineage == merge(lineage_of(x), lineage_of(y)).merged
           summary == <<kind, str(Len(lineage_of(x).sources)),
                        str(Len(lineage_of(y).sources))>>
       IN Bind(Called(kind, x, <<y>>, r), r,
               new_object(tables, r),
               set_project_path(
                   [merged_lineage EXCEPT !.operations = add_operation(@, summary)],
                   lineage_of(x).project_path),
               tables[x].strict_mode)
    /\ UNCHANGED <<gate_vars, fetch_vars, io_vars, registry_vars, lin, environ,
                   lookup_vars>>

\* r = x.concat(others)
TableConcat(x, others, r) ==
    /\ tables[x].alive
    /\ \A i \in DOMAIN others : tables[others[i]].alive
    /\ tcall.n < MaxCalls
    /\ LET combined_lineage == merge_all(lineage_of(x), others)
           summary == <<"concat", str(Len(others) + 1),
                        str(total_sources(<<x>> \o others))>>
           \* with no others combined_lineage is self.lineage itself
           o == IF others = <<>> THEN tables[x].lineage
                ELSE new_object(tables, r)
       IN Bind(Called("concat", x, others, r), r, o,
               set_project_path(
                   [combined_lineage EXCEPT !.operations = add_operation(@, summary)],
                   lineage_of(x).project_path),
               tables[x].strict_mode)
    /\ UNCHANGED <<gate_vars, fetch_vars, io_vars, registry_vars, lin, environ,
                   lookup_vars>>

\* r = x.<name>(...) or r = x.<name>, the pandas result being a DataFrame
Forward(x, name, r) ==
    /\ tables[x].alive
    /\ tcall.n < MaxCalls
    /\ Bind(Called(name, x, <<>>, r), r,
            new_object(tables, r),
            set_project_path(_wrap_result(lineage_of(x), forwarded_operation(name)),
                             lineage_of(x).project_path),
            tables[x].strict_mode)
    /\ UNCHANGED <<gate_vars, fetch_vars, io_vars, registry_vars, lin, environ,
                   lookup_vars>>

\* r = x.apply_operation(operation, description)
ApplyOperation(x, description, r) ==
    /\ tables[x].alive
    /\ tcall.n < MaxCalls
    /\ Bind(Called("apply_operation", x, <<>>, r), r,
            new_object(tables, r),
            set_project_path(
                Lineage(lineage_of(x).sources,
                        add_operation(lineage_of(x).operations, <<description>>),
                        lineage_of(x).project_path),
                lineage_of(x).project_path),
            tables[x].strict_mode)
    /\ UNCHANGED <<gate_vars, fetch_vars, io_vars, registry_vars, lin, environ,
                   lookup_vars>>

\* r = x[key], the pandas result being a DataFrame
GetItem(x, r) ==
    /\ tables[x].alive
    /\ tcall.n < MaxCalls
    /\ Bind(Called("__getitem__", x, <<>>, r), r,
            new_object(tables, r),
            set_project_path(_wrap_result(lineage_of(x), NoOperation),
                             lineage_of(x).project_path),
            tables[x].strict_mode)
    /\ UNCHANGED <<gate_vars, fetch_vars, io_vars, registry_vars, lin, environ,
                   lookup_vars>>

\* mutant: the assignment gives the instance a new lineage object
SetItem_new_lineage(x, key) ==
    /\ tables[x].alive
    /\ tcall.n < MaxCalls
    /\ \E o \in ObjIds \ referenced(tables, "none") :
        Bind(Called("__setitem__", x, <<>>, x), x, o,
             [lineage_of(x) EXCEPT !.operations =
                add_operation(@, <<"__setitem__", key>>)],
             tables[x].strict_mode)
    /\ UNCHANGED <<gate_vars, fetch_vars, io_vars, registry_vars, lin, environ,
                   lookup_vars>>

\* x[key] = value
SetItem(x, key) ==
    /\ tables[x].alive
    /\ tcall.n < MaxCalls
    /\ heap' = [heap EXCEPT ![tables[x].lineage].operations =
                    add_operation(@, <<"__setitem__", key>>)]
    /\ tcall' = Called("__setitem__", x, <<>>, x)
    /\ UNCHANGED tables
    /\ UNCHANGED <<gate_vars, fetch_vars, io_vars, registry_vars, lin, environ,
                   lookup_vars>>

\* os.environ["SUNSTONE_DATAFRAME_STRICT"] = value
Setenv(value) ==
    /\ environ # value
    /\ environ' = value
    /\ UNCHANGED <<tables, heap, tcall>>
    /\ UNCHANGED <<gate_vars, fetch_vars, io_vars, registry_vars, lin, lookup_vars>>

\* ------------------------------------------------------ location lookup

LookIdle ==
    [called |-> FALSE, location |-> RelPath(<<>>), dataset_type |-> None,
     result |-> NoDataset]

\* manager.find_dataset_by_location(location, dataset_type) on a manager
\* that has just been opened on the project; the lookup changes nothing, so
\* one per run is followed
FindByLocation(location, dataset_type) ==
    /\ ~look.called
    /\ look' = [called |-> TRUE, location |-> location,
                dataset_type |-> dataset_type,
                result |-> find_dataset_by_location(_load(manifest), fs,
                                                    location, dataset_type)]
    /\ UNCHANGED <<gate_vars, fetch_vars, io_vars, registry_vars, lin, table_vars>>

\* ------------------------------------------- registry: mutating calls

\* an optional argument: given is FALSE for Python's None
Given(value) == [given |-> TRUE, value |-> value]
NoFields == [given |-> FALSE, value |-> <<>>]
NoLocation == [given |-> FALSE, value |-> RelPath(<<>>)]

\* mutant: the entry found is replaced by a fresh one
update_output_dataset_replace(data, slug, fields, location) ==
    LET i == FirstIndex([k \in DOMAIN data.outputs |-> data.outputs[k].slug = slug])
    IN  IF i = 0 THEN [error |-> "EntryNotFound", data |-> data, saved |-> FALSE]
        ELSE [error |-> "none", saved |-> TRUE,
              data |-> [data EXCEPT !.outputs[i] =
                Entry(@.name, @.slug,
                      IF location.given THEN location.value ELSE @.location,
                      IF fields.given THEN fields.value ELSE @.fields,
                      FALSE, FALSE, NoLineage)]]

\* update_output_dataset: the error raised, _data afterwards, whether
\* _save was called
update_output_dataset(data, slug, fields, location) ==
    LET i == FirstIndex([k \in DOMAIN data.outputs |-> data.outputs[k].slug = slug])
    IN  IF i = 0 THEN [error |-> "EntryNotFound", data |-> data, saved |-> FALSE]
        ELSE [error |-> "none", saved |-> TRUE,
              data |-> [data EXCEPT
                !.outputs[i].fields = IF fields.given THEN fields.value ELSE @,
                !.outputs[i].location =
                    IF location.given THEN location.value ELSE @]]

ManagerIds == {"m1", "m2"}

NoManager == [open |-> FALSE, data |-> [inputs |-> <<>>, outputs |-> <<>>]]

McallIdle ==
    [m |-> "none", op |-> "none", at |-> 0, slug |-> None,
     fields |-> NoFields, location |-> NoLocation, error |-> "none"]

ApiIdle ==
    /\ managers = [m \in ManagerIds |-> NoManager]
    /\ mcall = McallIdle
    /\ lin = LinIdle
    /\ TablesIdle
    /\ look = LookIdle

\* DatasetsManager(project_path): the file is read into _data
OpenManager(m) ==
    /\ wr.pc \in {"idle", "done"}
    /\ managers' = [managers EXCEPT ![m] = [open |-> TRUE, data |-> _load(manifest)]]
    /\ mcall' = [McallIdle EXCEPT !.m = m, !.op = "__init__"]
    /\ UNCHANGED <<gate_vars, fetch_vars, io_vars, lin, table_vars, lookup_vars>>

\* managers[m].add_output_dataset(name, slug, location, fields, publish)
AddOutput(m, name, slug, location, fields, publish) ==
    /\ managers[m].open
    /\ wr.pc \in {"idle", "done"}
    /\ clock < MaxWrites
    /\ clock' = clock + 1
    /\ LET r == add_output_dataset(managers[m].data, name, slug, location,
                                   fields, publish)
       IN /\ managers' = [managers EXCEPT ![m].data = r.data]
          /\ manifest' = IF r.error = "none" THEN _save(r.data) ELSE manifest
          /\ mcall' = [m |-> m, op |-> "add_output_dataset",
                       at |-> clock + 1, slug |-> slug,
                       fields |-> Given(fields), location |-> Given(location),
                       error |-> r.error]
    /\ UNCHANGED <<fs, frame, rd, wr, lin, table_vars, lookup_vars>>
    /\ UNCHANGED <<gate_vars, fetch_vars>>

\* managers[m].update_output_dataset(slug, fields, location)
UpdateOutput(m, slug, fields, location) ==
    /\ managers[m].open
    /\ wr.pc \in {"idle", "done"}
    /\ clock < MaxWrites
    /\ clock' = clock + 1
    /\ LET r == update_output_dataset(managers[m].data, slug, fields, location)
       IN /\ managers' = [managers EXCEPT ![m].data = r.data]
          /\ manifest' = IF r.saved THEN _save(r.data) ELSE manifest
          /\ mcall' = [m |-> m, op |-> "update_output_dataset",
                       at |-> clock + 1, slug |-> slug,
                       fields |-> fields, location |-> location,
                       error |-> r.error]
    /\ UNCHANGED <<fs, frame, rd, wr, lin, table_vars, lookup_vars>>
    /\ UNCHANGED <<gate_vars, fetch_vars>>

\* yaml.dump stopped after this many entries were written to the file
written_prefix(data, written) ==
    LET n == Len(data.inputs) IN
    [inputs |-> SubSeq(data.inputs, 1, IF written < n THEN written ELSE n),
     outputs |-> SubSeq(data.outputs, 1, IF written > n THEN written - n ELSE 0)]

\* _save raising OSError: either open(datasets_file, "w") fails and the file
\* is as it was (written = -1), or the file was truncated by open and the
\* dump stopped after some of the entries
_save_interrupted(file, data, written) ==
    IF written = -1 THEN file ELSE written_prefix(data, written)

\* the points at which a _save of data can fail
interruptions(data) == -1 .. (Len(data.inputs) + Len(data.outputs) - 1)

\* managers[m].add_output_dataset(...) whose _save raises OSError
AddOutputInterrupted(m, name, slug, location, fields, publish) ==
    /\ managers[m].open
    /\ wr.pc \in {"idle", "done"}
    /\ clock < MaxWrites
    /\ clock' = clock + 1
    /\ LET r == add_output_dataset(managers[m].data, name, slug, location,
                                   fields, publish)
       IN /\ r.error = "none"
          /\ managers' = [managers EXCEPT ![m].data = r.data]
          /\ \E written \in interruptions(r.data) :
                manifest' = _save_interrupted(manifest, r.data, written)
          /\ mcall' = [m |-> m, op |-> "add_output_dataset",
                       at |-> clock + 1, slug |-> slug,
                       fields |-> Given(fields), location |-> Given(location),
                       error |-> "OSError"]
    /\ UNCHANGED <<fs, frame, rd, wr, lin, table_vars, lookup_vars>>
    /\ UNCHANGED <<gate_vars, fetch_vars>>

\* managers[m].update_output_dataset(...) whose _save raises OSError
UpdateOutputInterrupted(m, slug, fields, location) ==
    /\ managers[m].open
    /\ wr.pc \in {"idle", "done"}
    /\ clock < MaxWrites
    /\ clock' = clock + 1
    /\ LET r == update_output_dataset(managers[m].data, slug, fields, location)
       IN /\ r.saved
          /\ managers' = [managers EXCEPT ![m].data = r.data]
          /\ \E written \in interruptions(r.data) :
                manifest' = _save_interrupted(manifest, r.data, written)
          /\ mcall' = [m |-> m, op |-> "update_output_dataset",
                       at |-> clock + 1, slug |-> slug,
                       fields |-> fields, location |-> location,
                       error |-> "OSError"]
    /\ UNCHANGED <<fs, frame, rd, wr, lin, table_vars, lookup_vars>>
    /\ UNCHANGED <<gate_vars, fetch_vars>>

\* ---- inputs of the registry specifications

MetaA ==
    DatasetMetadata("A", "a", RelPath(<<"inputs", "a.csv">>),
                    <<FieldSchema("k", "integer")>>, TRUE, FALSE, "input")

\* the same dataset parsed again after its field schema was replaced
MetaA2 == [MetaA EXCEPT !.fields = <<FieldSchema("k", "string")>>]

MetaB ==
    DatasetMetadata("B", "b", RelPath(<<"inputs", "b.csv">>),
                    <<FieldSchema("k", "integer")>>, FALSE, FALSE, "input")

SourcePool == {MetaA, MetaA2, MetaB}

InputA ==
    Entry("A", "a", RelPath(<<"inputs", "a.csv">>),
          <<FieldSchema("k", "integer")>>, FALSE, TRUE, NoLineage)

\* an input without source URL whose slug is also the slug of an output
InputB ==
    Entry("B", "s1", RelPath(<<"outputs", "y.csv">>),
          <<FieldSchema("k", "integer")>>, FALSE, FALSE, NoLineage)

Output(slug, location, lineage) ==
    Entry("Out", slug, location, <<FieldSchema("k", "integer")>>, FALSE,
          FALSE, lineage)

OldLineage ==
    [present |-> TRUE, content_hash |-> <<"sha256", "c2">>, created_at |-> 0,
     sources |-> <<>>]

DiskWith(files) ==
    [p \in FsPaths |-> IF p \in DOMAIN files THEN files[p] ELSE NoFile]

Project(file, disk) == [manifest |-> file, fs |-> disk]

\* the projects a run starts from: manifest and files
InitialProjects ==
    {\* no output registered
     Project([inputs |-> <<InputA>>, outputs |-> <<>>],
             DiskWith(<<"proj", "inputs", "a.csv">> :> File(1, "c1"))),
     \* an output registered and written before; an input sharing its slug
     Project([inputs |-> <<InputA, InputB>>,
              outputs |-> <<Output("s1", RelPath(<<"outputs", "x.csv">>),
                                   OldLineage)>>],
             DiskWith(<<"proj", "inputs", "a.csv">> :> File(1, "c1")
                      @@ <<"proj", "outputs", "x.csv">> :> File(2, "c2"))),
     \* an output registered under another spelling, not written yet;
     \* the input file is not on disk
     Project([inputs |-> <<InputA>>,
              outputs |-> <<Output("s1", RelPath(<<".", "outputs", "x.csv">>),
                                   NoLineage)>>],
             EmptyDisk),
     \* an output whose registered path is gone; a file of that name in data/
     Project([inputs |-> <<InputA>>,
              outputs |-> <<Output("s1", RelPath(<<"old", "x.csv">>),
                                   NoLineage)>>],
             DiskWith(<<"proj", "inputs", "a.csv">> :> File(1, "truncated")
                      @@ <<"proj", "data", "x.csv">> :> File(2, "c2")))}

WriteLocations ==
    {RelPath(<<"outputs", "x.csv">>), RelPath(<<"data", "x.csv">>),
     RelPath(<<"outputs", "y.csv">>)}

ReadArguments ==
    {RelPath(<<"inputs", "a.csv">>), RelPath(<<".", "inputs", "a.csv">>),
     RelPath(<<"outputs", "x.csv">>), RelPath(<<"outputs", "y.csv">>),
     RelPath(<<"a">>), RelPath(<<"nope">>)}

Slugs == {"s1", "s2"}

\* the strict argument and the value of SUNSTONE_DATAFRAME_STRICT
ModeArguments ==
    {<<None, "">>, <<None, "1">>, <<"true", "">>, <<"false", "1">>}

\* fetch_from_url, and whether the fetch succeeds when it is attempted
FetchArguments == {<<TRUE, TRUE>>, <<TRUE, FALSE>>, <<FALSE, FALSE>>}

\* the tables written: one read from input "a", one built in memory
WriteFrames ==
    {Frame(Table("c1"), <<MetaA>>, <<Op("read_csv", "a")>>, strict_mode_of(m[1], m[2])) :
        m \in ModeArguments}
    \cup {Frame(Table("c2"), <<>>, <<>>, strict_mode_of(m[1], m[2])) :
            m \in ModeArguments}

IOIdle ==
    /\ manifest = [inputs |-> <<>>, outputs |-> <<>>]
    /\ fs = EmptyDisk
    /\ frame = NoFrame
    /\ rd = RdIdle
    /\ wr = WrIdle
    /\ clock = 0
    /\ ApiIdle

IOInit ==
    /\ \E p \in InitialProjects : manifest = p.manifest /\ fs = p.fs
    /\ frame = NoFrame
    /\ rd = RdIdle
    /\ wr = WrIdle
    /\ clock = 0
    /\ ApiIdle

\* DataFrame.read_csv(location, strict=..., fetch_from_url=...)
ReadCsv(location, strict, env, fetch_from_url, fetched) ==
    /\ LET r == read_csv(manifest, fs, frame, location, strict, env,
                         fetch_from_url, fetched)
       IN /\ frame' = r.frame
          /\ fs' = r.fs
          /\ manifest' = r.manifest
          /\ rd' = [op |-> "read_csv", arg |-> location, result |-> r.result,
                    found |-> IF is_slug(location)
                              THEN ~IsNone(find_dataset_by_slug(
                                        manifest, location.segs[1], None))
                              ELSE ~IsNone(find_dataset_by_location(
                                        manifest, fs, location, None)),
                    strict_mode |-> strict_mode_of(strict, env)]
    /\ UNCHANGED <<wr, clock>>
    /\ UNCHANGED <<gate_vars, fetch_vars, api_vars>>

\* DataFrame.read_dataset(slug, strict=..., fetch_from_url=...)
ReadDataset(slug, strict, env, fetch_from_url, fetched) ==
    /\ LET r == read_dataset(manifest, fs, frame, slug, strict, env,
                             fetch_from_url, fetched)
       IN /\ frame' = r.frame
          /\ fs' = r.fs
          /\ manifest' = r.manifest
          /\ rd' = [op |-> "read_dataset", arg |-> RelPath(<<slug>>),
                    result |-> r.result,
                    found |-> ~IsNone(find_dataset_by_slug(manifest, slug, None)),
                    strict_mode |-> strict_mode_of(strict, env)]
    /\ UNCHANGED <<wr, clock>>
    /\ UNCHANGED <<gate_vars, fetch_vars, api_vars>>

\* self.to_csv(location, slug, name, publish) up to the physical write:
\* lookup, policy, registration
ToCsvCall(self, location, slug, name, publish) ==
    /\ wr.pc \in {"idle", "done"}
    /\ clock < MaxWrites
    /\ clock' = clock + 1
    /\ frame' = self
    /\ LET data == _load(manifest)
           dataset == find_dataset_by_location(data, fs, location, "output")
           w == [WrIdle EXCEPT !.location = location, !.slug = slug,
                               !.name = name, !.publish = publish,
                               !.dataset = dataset, !.data = data,
                               !.found = ~IsNone(dataset)]
           policy == unregistered_write_policy(self.strict_mode, slug, name)
           fields == _infer_field_schema(self.data)
           added == add_output_dataset(data, name, slug, location, fields,
                                       publish)
       IN IF ~IsNone(dataset)
          THEN wr' = [w EXCEPT !.pc = "write"] /\ manifest' = manifest
          ELSE IF policy # "register"
          THEN wr' = [w EXCEPT !.pc = "done", !.result = policy]
               /\ manifest' = manifest
          ELSE IF added.error # "none"
          THEN wr' = [w EXCEPT !.pc = "done", !.result = added.error]
               /\ manifest' = manifest
          ELSE /\ manifest' = _save(added.data)
               /\ wr' = [w EXCEPT
                    !.pc = "write", !.data = added.data,
                    !.dataset = _parse_dataset(
                        added.data.outputs[Len(added.data.outputs)], "output")]
    /\ UNCHANGED <<fs, rd>>
    /\ UNCHANGED <<gate_vars, fetch_vars, api_vars>>

\* mutant: a failed physical write is swallowed and the lineage persisted
ToCsvWrite_swallow_failure ==
    /\ wr.pc = "write"
    /\ LET absolute_path == get_absolute_path(wr.dataset.location) IN
       \E w \in WriteOutcomes :
            /\ fs' = IF w = "written"
                     THEN write_file(fs, absolute_path, frame.data.content)
                     ELSE IF w = "write_failed"
                     THEN write_file(fs, absolute_path, "truncated")
                     ELSE fs
            /\ wr' = [wr EXCEPT !.pc = "lineage", !.write = w]
    /\ UNCHANGED <<manifest, frame, rd, clock>>
    /\ UNCHANGED <<gate_vars, fetch_vars, api_vars>>

\* mutant: a failed physical write takes the entry registered by this call
\* out of the manifest again
ToCsvWrite_rollback ==
    /\ wr.pc = "write"
    /\ LET absolute_path == get_absolute_path(wr.dataset.location) IN
       \E w \in WriteOutcomes :
            /\ fs' = IF w = "written"
                     THEN write_file(fs, absolute_path, frame.data.content)
                     ELSE IF w = "write_failed"
                     THEN write_file(fs, absolute_path, "truncated")
                     ELSE fs
            /\ wr' = IF w = "written"
                     THEN [wr EXCEPT !.pc = "lineage", !.write = w]
                     ELSE [wr EXCEPT !.pc = "done", !.write = w,
                                     !.result = "OSError"]
            /\ manifest' = IF w # "written" /\ ~wr.found
                           THEN [manifest EXCEPT !.outputs =
                                    SubSeq(@, 1, Len(@) - 1)]
                           ELSE manifest
    /\ UNCHANGED <<frame, rd, clock>>
    /\ UNCHANGED <<gate_vars, fetch_vars, api_vars>>

\* "Write the CSV": mkdir, then pandas to_csv on the entry's path
ToCsvWrite ==
    /\ wr.pc = "write"
    /\ LET absolute_path == get_absolute_path(wr.dataset.location) IN
       \E w \in WriteOutcomes :
            /\ fs' = IF w = "written"
                     THEN write_file(fs, absolute_path, frame.data.content)
                     ELSE IF w = "write_failed"
                     THEN write_file(fs, absolute_path, "truncated")
                     ELSE fs
            /\ wr' = IF w = "written"
                     THEN [wr EXCEPT !.pc = "lineage", !.write = w]
                     ELSE [wr EXCEPT !.pc = "done", !.write = w,
                                     !.result = "OSError"]
    /\ UNCHANGED <<manifest, frame, rd, clock>>
    /\ UNCHANGED <<gate_vars, fetch_vars, api_vars>>

\* "Record the operation" and "Persist lineage metadata to datasets.yaml"
ToCsvLineage ==
    /\ wr.pc = "lineage"
    /\ frame' = [frame EXCEPT !.operations =
                    add_operation(@, Op("to_csv", wr.dataset.slug))]
    /\ LET r == update_output_lineage(wr.data, wr.dataset.slug, frame.sources,
                                      compute_dataframe_hash(frame.data), clock)
       IN /\ manifest' = IF r.error = "none" THEN _save(r.data) ELSE manifest
          /\ wr' = [wr EXCEPT !.pc = "done", !.data = r.data,
                              !.result = IF r.error = "none" THEN "ok"
                                         ELSE r.error]
    /\ UNCHANGED <<fs, rd, clock>>
    /\ UNCHANGED <<gate_vars, fetch_vars, api_vars>>

\* ---------------------------------------------------------- specifications

NextGate == GateReturn

InitGate == GateInit /\ FetchIdle /\ IOIdle

SpecGate == InitGate /\ [][NextGate]_vars

NextFetch ==
    \/ \E hs \in BOOLEAN, u \in SourceUrls, f \in BOOLEAN,
          m \in 0..MaxRedirectsArg : FetchCall(hs, u, f, m)
    \/ ValidateUrl
    \/ RequestInitial
    \/ FollowRedirect
    \/ RequestRedirect
    \/ Finish

InitFetch == FetchInit /\ GateIdle /\ IOIdle

SpecFetch == InitFetch /\ [][NextFetch]_vars

\* fetch_from_url is sequential code: once called it keeps running, each
\* requests.get returning a response or raising (timeout=timeout)
InitFetchLive == FetchInit /\ GateIdle /\ IOIdle

SpecFetchLive ==
    /\ InitFetchLive /\ [][NextFetch]_vars
    /\ WF_vars(ValidateUrl) /\ WF_vars(RequestInitial) /\ WF_vars(FollowRedirect)
    /\ WF_vars(RequestRedirect) /\ WF_vars(Finish)

NextRead ==
    \/ \E l \in ReadArguments, m \in ModeArguments, f \in FetchArguments :
            ReadCsv(l, m[1], m[2], f[1], f[2])
    \/ \E g \in {"a", "s1", "nope"}, m \in ModeArguments, f \in FetchArguments :
            ReadDataset(g, m[1], m[2], f[1], f[2])

InitRead == IOInit /\ GateIdle /\ FetchIdle

SpecRead == InitRead /\ [][NextRead]_vars

NextWrite ==
    \/ \E self \in WriteFrames, l \in WriteLocations, g \in Slugs \cup {None},
          n \in {"N", None} : ToCsvCall(self, l, g, n, FALSE)
    \/ ToCsvWrite
    \/ ToCsvLineage

InitWrite == IOInit /\ GateIdle /\ FetchIdle

SpecWrite == InitWrite /\ [][NextWrite]_vars

\* the table the registry specification writes with to_csv
RegistryFrame == Frame(Table("c1"), <<MetaA>>, <<Op("read_csv", "a")>>, FALSE)

NewFields == <<FieldSchema("x", "number")>>

NextManager ==
    \/ \E m \in ManagerIds : OpenManager(m)
    \/ \E m \in ManagerIds, g \in Slugs \cup {"a"} :
            AddOutput(m, "N", g, RelPath(<<"outputs", "y.csv">>), NewFields, TRUE)
    \/ \E m \in ManagerIds, g \in Slugs, f \in {NoFields, Given(NewFields)},
          l \in {NoLocation, Given(RelPath(<<"outputs", "z.csv">>))} :
            UpdateOutput(m, g, f, l)
    \/ \E l \in WriteLocations, g \in Slugs : ToCsvCall(RegistryFrame, l, g, "N", FALSE)
    \/ ToCsvWrite
    \/ ToCsvLineage

InitManager == IOInit /\ GateIdle /\ FetchIdle

\* the registry calls, any of which may fail while persisting
NextSave ==
    \/ \E m \in ManagerIds : OpenManager(m)
    \/ \E m \in ManagerIds, g \in Slugs :
            AddOutput(m, "N", g, RelPath(<<"outputs", "y.csv">>), NewFields, TRUE)
    \/ \E m \in ManagerIds, g \in Slugs :
            AddOutputInterrupted(m, "N", g, RelPath(<<"outputs", "y.csv">>),
                                 NewFields, TRUE)
    \/ \E m \in ManagerIds, g \in Slugs, f \in {NoFields, Given(NewFields)} :
            UpdateOutput(m, g, f, NoLocation)
    \/ \E m \in ManagerIds, g \in Slugs, f \in {NoFields, Given(NewFields)} :
            UpdateOutputInterrupted(m, g, f, NoLocation)

InitSave == IOInit /\ GateIdle /\ FetchIdle

SpecSave == InitSave /\ [][NextSave]_vars

SpecManager == InitManager /\ [][NextManager]_vars

NextLineage ==
    \/ \E x \in {"a", "b"}, d \in SourcePool : LinAddSource(x, d)
    \/ \E x \in {"a", "b"}, y \in {"a", "b"} : LinMerge(x, y)

IOQuiet ==
    /\ manifest = [inputs |-> <<>>, outputs |-> <<>>]
    /\ fs = EmptyDisk
    /\ frame = NoFrame
    /\ rd = RdIdle
    /\ wr = WrIdle
    /\ clock = 0
    /\ managers = [m \in ManagerIds |-> NoManager]
    /\ mcall = McallIdle
    /\ TablesIdle
    /\ look = LookIdle

InitLineage == LinInit /\ IOQuiet /\ GateIdle /\ FetchIdle

SpecLineage == InitLineage /\ [][NextLineage]_vars

\* the variables whose instances are operands; "t3" only receives results
Operands == {"t1", "t2"}

NextTables ==
    \/ \E value \in {"", "1"} : Setenv(value)
    \/ \E t \in {"t1", "t2"}, strict \in {None, "true", "false"} : NewTable(t, strict)
    \/ \E t \in {"t1", "t2"}, d \in {MetaA, MetaB}, strict \in {None, "true", "false"} :
            ReadTable(t, d, strict)
    \/ \E x \in Operands : ApplyOperation(x, "double", "t3")
    \/ \E k \in {"merge", "join"}, x \in Operands, y \in Operands :
            TableMerge(k, x, y, "t3")
    \/ \E x \in Operands, others \in {<<>>, <<"t1">>, <<"t2">>, <<"t1", "t2">>} :
            TableConcat(x, others, "t3")
    \/ \E x \in Operands, name \in {"head", "copy", "T"} : Forward(x, name, "t3")
    \/ \E x \in Operands : GetItem(x, "t3")
    \/ \E x \in TableIds : SetItem(x, "col")

IORest ==
    /\ manifest = [inputs |-> <<>>, outputs |-> <<>>]
    /\ fs = EmptyDisk
    /\ frame = NoFrame
    /\ rd = RdIdle
    /\ wr = WrIdle
    /\ clock = 0
    /\ managers = [m \in ManagerIds |-> NoManager]
    /\ mcall = McallIdle
    /\ lin = LinIdle
    /\ look = LookIdle

InitTables == TablesIdle /\ IORest /\ GateIdle /\ FetchIdle

SpecTables == InitTables /\ [][NextTables]_vars

\* the project-relative paths the lookups are about
LookupFiles ==
    {<<"inputs", "a.csv">>, <<"outputs", "x.csv">>, <<"data", "x.csv">>,
     <<"old", "x.csv">>}

\* the spellings of a project-relative path: as it is, with a leading "./",
\* and as an absolute path under the project root
Spellings(segs) ==
    {RelPath(segs), RelPath(<<".">> \o segs), AbsPath(project_path.segs \o segs)}

LookupLocations == UNION {Spellings(segs) : segs \in LookupFiles}

\* manifests of one or two inputs, located at any spelling of any of the paths
LookupEntry(name, slug, location) ==
    Entry(name, slug, location, <<FieldSchema("k", "integer")>>, FALSE, FALSE,
          NoLineage)

LookupManifests ==
    {[inputs |-> <<LookupEntry("A", "a", l)>>, outputs |-> <<>>] :
        l \in LookupLocations}
    \cup {[inputs |-> <<LookupEntry("A", "a", l[1]), LookupEntry("B", "b", l[2])>>,
           outputs |-> <<>>] : l \in LookupLocations \X LookupLocations}

\* disks: each path holds no file or one of two physical files (two paths
\* holding the same one are hard links)
LookupDisks ==
    {DiskWith([p \in {project_path.segs \o segs : segs \in LookupFiles} |->
                 IF ino[p] = 0 THEN NoFile ELSE File(ino[p], Numeral[ino[p] + 1])]) :
        ino \in [{project_path.segs \o segs : segs \in LookupFiles} -> {0, 1, 2}]}

NextLookup ==
    \E location \in LookupLocations, dataset_type \in {None, "input", "output"} :
        FindByLocation(location, dataset_type)

InitLookup ==
    /\ manifest \in LookupManifests
    /\ fs \in LookupDisks
    /\ frame = NoFrame /\ rd = RdIdle /\ wr = WrIdle /\ clock = 0
    /\ ApiIdle /\ GateIdle /\ FetchIdle

SpecLookup == InitLookup /\ [][NextLookup]_vars

\* ------------------------------------------------------------------ claims

GetIndexes == {i \in DOMAIN trace : trace[i].op = "get"}
RejectIndexes == {j \in DOMAIN trace : trace[j].op = "gate" /\ ~trace[j].ok}

\* C1: every request of a fetch goes to a URL the gate accepted earlier in
\* the same call; once the gate rejects a URL the fetch has failed with
\* UrlNotAllowed and nothing (no request, no further check) follows.
C1_RequestsOnlyToAcceptedUrls ==
    /\ \A i \in GetIndexes :
        \E j \in 1..(i - 1) : trace[j] = GateEvent(trace[i].url, TRUE)
    /\ \A j \in RejectIndexes :
        /\ j = Len(trace)
        /\ call.pc = "done"
        /\ call.result = "UrlNotAllowed"

\* two requests were issued and the target of the second redirect was rejected
C1_Witness ==
    /\ call.pc = "done"
    /\ call.result = "UrlNotAllowed"
    /\ Cardinality(GetIndexes) = 2
    /\ RejectIndexes = {Len(trace)}

\* C2: a fetch follows at most max_redirects redirects, hence issues at most
\* max_redirects + 1 requests; a redirect response received after
\* max_redirects follows makes it fail with TooManyRedirects.
C2_AtMostMaxRedirects ==
    /\ call.redirect_count <= call.max_redirects
    /\ Cardinality(GetIndexes) <= call.max_redirects + 1
    /\ (/\ call.pc = "done"
        /\ call.response.is_redirect
        /\ call.redirect_count = call.max_redirects)
       => call.result = "TooManyRedirects"

\* max_redirects = 2 redirects were followed and the third response redirects
C2_Witness ==
    /\ call.pc = "done"
    /\ call.max_redirects = 2
    /\ Cardinality(GetIndexes) = 3
    /\ call.result = "TooManyRedirects"

RedirectWithoutLocation ==
    /\ call.pc = "done"
    /\ call.response.is_redirect
    /\ call.response.location.kind = "absent"

\* C3 as stated: a redirect response without Location header always makes
\* the fetch fail with MissingLocationHeader.
C3_Original_AlwaysMissingLocation ==
    RedirectWithoutLocation => call.result = "MissingLocationHeader"

\* C3 (amended): a redirect response without Location header makes the fetch
\* fail with MissingLocationHeader when fewer than max_redirects redirects
\* were followed before it, and with TooManyRedirects when max_redirects
\* redirects were followed before it.
C3_MissingLocationBeforeLimit ==
    RedirectWithoutLocation =>
        /\ call.redirect_count < call.max_redirects
            => call.result = "MissingLocationHeader"
        /\ call.redirect_count >= call.max_redirects
            => call.result = "TooManyRedirects"

\* the second response is a redirect without Location, below the limit
C3_Witness ==
    /\ RedirectWithoutLocation
    /\ call.redirect_count = 1
    /\ call.max_redirects = 2
    /\ call.result = "MissingLocationHeader"

Restricted(ip) == ip.is_private \/ ip.is_loopback \/ ip.is_link_local

\* C4: _is_public_url returns true only if the parsed scheme is http or
\* https, a hostname is present, resolution succeeded and every resolved
\* address is a valid address that is not private, loopback or link-local.
C4_PublicOnlyIfAllPass ==
    (gate.pc = "returned" /\ gate.result) =>
        /\ lower(gate.url.scheme) \in {"http", "https"}
        /\ gate.url.host \notin {"", BadHost}
        /\ gate.res.kind = "ok"
        /\ \A i \in DOMAIN gate.res.addrs :
            gate.res.addrs[i].valid /\ ~Restricted(gate.res.addrs[i])

\* a public address followed by a restricted one: the gate answered false
C4_Witness ==
    /\ gate.pc = "returned"
    /\ ~gate.result
    /\ gate.url.scheme = "https"
    /\ gate.url.host = "example.com"
    /\ gate.res.kind = "ok"
    /\ Len(gate.res.addrs) = 2
    /\ gate.res.addrs[1] = PublicAddr
    /\ Restricted(gate.res.addrs[2])

CacheHitCall ==
    /\ call.pc # "idle"
    /\ call.has_source
    /\ ~call.force
    /\ call.local_before # Absent

\* C5: a fetch with force false of an entry with a source URL whose local
\* file exists returns at once: no gate check, no request, file unchanged.
C5_CacheHitShortCircuit ==
    CacheHitCall =>
        /\ call.pc = "done"
        /\ call.result = "returned"
        /\ trace = <<>>
        /\ local_file = call.local_before

\* a cache hit on a file that an earlier fetch of this run downloaded
C5_Witness ==
    /\ CacheHitCall
    /\ call.result = "returned"
    /\ local_file = "body"

\* the location resolves to an output entry of the manifest as it stands
Registered(location) ==
    ~IsNone(find_dataset_by_location(_load(manifest), fs, location, "output"))

\* this step is a call of to_csv
ToCsvCalled == clock' = clock + 1

UnregisteredCall == ToCsvCalled /\ ~Registered(wr'.location)

\* C6: in strict mode a write to a location that resolves to no output entry
\* ends at once with UnregisteredOutput, whatever slug and name are given;
\* the manifest and the files are those of before the call.
C6_StrictUnregisteredWriteFails ==
    [][(UnregisteredCall /\ frame'.strict_mode) =>
            /\ wr'.pc = "done"
            /\ wr'.result = "UnregisteredOutput"
            /\ manifest' = manifest
            /\ fs' = fs]_vars

\* the second write of a run, strict, with slug and name, was refused
C6_Witness ==
    /\ wr.pc = "done"
    /\ wr.result = "UnregisteredOutput"
    /\ frame.strict_mode
    /\ wr.slug = "s2"
    /\ wr.name = "N"
    /\ clock = 2

RelaxedRegistration ==
    /\ UnregisteredCall
    /\ ~frame'.strict_mode
    /\ wr'.slug # None
    /\ wr'.name # None

\* the entry to_csv registers for the table it writes
NewEntry ==
    Entry(wr'.name, wr'.slug, wr'.location, _infer_field_schema(frame'.data),
          wr'.publish, FALSE, NoLineage)

RelaxedRegistrationDone ==
    /\ wr.pc = "done"
    /\ ~wr.found
    /\ ~frame.strict_mode
    /\ wr.slug # None
    /\ wr.name # None

\* C7 as stated: a relaxed write to an unregistered location with slug and
\* name always registers exactly one new entry and, the physical write not
\* failing, succeeds.
C7_Original_AlwaysRegisters ==
    /\ [][RelaxedRegistration =>
            /\ manifest' = [manifest EXCEPT !.outputs = Append(@, NewEntry)]
            /\ wr'.pc = "write"]_vars
    /\ [](RelaxedRegistrationDone /\ wr.write \notin {"open_failed", "write_failed"}
            => wr.result = "ok")

SlugTaken(slug) == \E i \in DOMAIN manifest.outputs : manifest.outputs[i].slug = slug

\* C7 (amended): a relaxed write to an unregistered location with slug and
\* name, the slug being used by no output entry, appends exactly one output
\* entry with that slug, name, location and the field types inferred from
\* the table's columns, and goes on to the physical write; it succeeds
\* unless the physical write fails.  With a slug an output entry already
\* uses it fails with DuplicateSlug and the manifest is unchanged.
C7_RegistersUnlessSlugTaken ==
    /\ [][RelaxedRegistration =>
            IF SlugTaken(wr'.slug)
            THEN /\ manifest' = manifest
                 /\ wr'.pc = "done"
                 /\ wr'.result = "DuplicateSlug"
            ELSE /\ manifest' = [manifest EXCEPT !.outputs = Append(@, NewEntry)]
                 /\ wr'.pc = "write"]_vars
    /\ [](RelaxedRegistrationDone =>
            \/ wr.result = "ok" /\ wr.write = "written"
            \/ wr.result = "OSError" /\ wr.write \in {"open_failed", "write_failed"}
            \/ wr.result = "DuplicateSlug" /\ wr.write = "none")

\* a table of three columns was registered under a fresh slug and written
C7_Witness ==
    /\ RelaxedRegistrationDone
    /\ wr.result = "ok"
    /\ frame.data.content = "c2"
    /\ Len(manifest.outputs) = 2
    /\ manifest.outputs[2].slug = "s2"
    /\ manifest.outputs[2].name = "N"
    /\ manifest.outputs[2].location = wr.location
    /\ manifest.outputs[2].fields =
            <<FieldSchema("x", "number"), FieldSchema("b", "boolean"),
              FieldSchema("t", "datetime")>>

\* C8: a relaxed write to a location that resolves to no output entry, with
\* slug or name absent, ends at once with MissingRegistrationFields; nothing
\* was registered and nothing written.
C8_MissingFieldsBeforeAnyEffect ==
    [][(/\ UnregisteredCall
        /\ ~frame'.strict_mode
        /\ (wr'.slug = None \/ wr'.name = None)) =>
            /\ wr'.pc = "done"
            /\ wr'.result = "MissingRegistrationFields"
            /\ wr'.write = "none"
            /\ manifest' = manifest
            /\ fs' = fs]_vars

\* a slug without a name
C8_Witness ==
    /\ wr.pc = "done"
    /\ wr.result = "MissingRegistrationFields"
    /\ wr.slug = "s2"
    /\ wr.name = None
    /\ ~frame.strict_mode

\* the read just made looked up an argument that matches no entry
ReadMissed ==
    /\ rd'.op # "none"
    /\ IF rd'.op = "read_dataset" \/ is_slug(rd'.arg)
       THEN IsNone(find_dataset_by_slug(_load(manifest), rd'.arg.segs[1], None))
       ELSE IsNone(find_dataset_by_location(_load(manifest), fs, rd'.arg, None))

TargetWritten ==
    LET absolute_path == get_absolute_path(wr.dataset.location)
    IN  /\ exists(fs, absolute_path)
        /\ fs[absolute_path.segs].content = frame.data.content

LineagePersisted == wr.pc = "lineage" /\ wr'.pc = "done" /\ wr'.result = "ok"

DistinctSlugs(entries) ==
    \A i, j \in DOMAIN entries : i # j => entries[i].slug # entries[j].slug

UniqueSlugs(data) == DistinctSlugs(data.inputs) /\ DistinctSlugs(data.outputs)

ManagerCalled(op) ==
    clock' = clock + 1 /\ mcall'.at = clock' /\ mcall'.op = op

UsedByOutput(data, slug) ==
    \E i \in DOMAIN data.outputs : data.outputs[i].slug = slug

\* C13: add_output_dataset with a slug an output of the manager's manifest
\* uses fails with DuplicateSlug, the manager's _data and the file staying
\* as they are; otherwise, and also when only an input uses the slug, it
\* appends one output and persists.
C13_DuplicateSlugRejected ==
    [][ManagerCalled("add_output_dataset") =>
        LET before == managers[mcall'.m].data
            after == managers'[mcall'.m].data
        IN  IF UsedByOutput(before, mcall'.slug)
            THEN /\ mcall'.error = "DuplicateSlug"
                 /\ managers' = managers
                 /\ manifest' = manifest
            ELSE /\ mcall'.error = "none"
                 /\ Len(after.outputs) = Len(before.outputs) + 1
                 /\ after.outputs[Len(after.outputs)].slug = mcall'.slug
                 /\ manifest' = after]_vars

\* an output was added under the slug of an input
C13_Witness ==
    /\ mcall.op = "add_output_dataset"
    /\ mcall.error = "none"
    /\ mcall.slug = "a"
    /\ \E i \in DOMAIN manifest.inputs : manifest.inputs[i].slug = "a"
    /\ \E j \in DOMAIN manifest.outputs : manifest.outputs[j].slug = "a"

\* C14: update_output_dataset for a slug no output of the manager's manifest
\* has fails with EntryNotFound, nothing changed or persisted; for a slug
\* present it replaces the fields and the location that were supplied in the
\* one entry of that slug, leaves everything else of the manifest and the
\* order of the lists as they were, and persists.
C14_UpdateTouchesOnlySupplied ==
    [][ManagerCalled("update_output_dataset") =>
        LET before == managers[mcall'.m].data
            after == managers'[mcall'.m].data
        IN  IF ~UsedByOutput(before, mcall'.slug)
            THEN /\ mcall'.error = "EntryNotFound"
                 /\ managers' = managers
                 /\ manifest' = manifest
            ELSE /\ mcall'.error = "none"
                 /\ after.inputs = before.inputs
                 /\ DOMAIN after.outputs = DOMAIN before.outputs
                 /\ \A i \in DOMAIN before.outputs :
                        IF before.outputs[i].slug = mcall'.slug
                        THEN after.outputs[i] =
                            [before.outputs[i] EXCEPT
                                !.fields = IF mcall'.fields.given
                                           THEN mcall'.fields.value ELSE @,
                                !.location = IF mcall'.location.given
                                             THEN mcall'.location.value ELSE @]
                        ELSE after.outputs[i] = before.outputs[i]
                 /\ manifest' = after]_vars

\* only the location of the first of two outputs was replaced; its lineage
\* block is the one it had
C14_Witness ==
    /\ mcall.op = "update_output_dataset"
    /\ mcall.error = "none"
    /\ ~mcall.fields.given
    /\ mcall.location.given
    /\ Len(manifest.outputs) = 2
    /\ manifest.outputs[1].slug = mcall.slug
    /\ manifest.outputs[1].location = mcall.location.value
    /\ manifest.outputs[1].lineage.present

SetOf(seq) == {seq[i] : i \in DOMAIN seq}

NoRepeat(seq) == \A i, j \in DOMAIN seq : i # j => seq[i] # seq[j]

\* this step is lin[lin'.x].merge(lin[lin'.y])
MergeStep == lin' # lin /\ lin'.op = "merge"

\* the sources of B that A does not hold, in B's order
Missing(A, B) ==
    LET absent(d) == ~contains(A.sources, d) IN SelectSeq(B.sources, absent)

\* C15: A.merge(B) returns a lineage whose sources are those of A, in order,
\* followed by the sources of B that A does not hold, in B's order: every
\* source of A or B is there, none twice; A and B are as before the call;
\* project_path is A's, or B's when A has none.
C15_MergeKeepsEverySourceOnce ==
    [][MergeStep =>
        LET A == lin[lin'.x]
            B == lin[lin'.y]
            M == lin'.m
        IN  /\ M.sources = A.sources \o Missing(A, B)
            /\ SetOf(M.sources) = SetOf(A.sources) \cup SetOf(B.sources)
            /\ NoRepeat(M.sources)
            /\ lin'.a = lin.a
            /\ lin'.b = lin.b
            /\ M.project_path =
                IF A.project_path # None THEN A.project_path
                ELSE B.project_path]_vars

\* A without project_path merged with B: the source of A, then the one
\* source of B that A lacks, B's project_path
C15_Witness ==
    /\ lin.op = "merge"
    /\ lin.x = "a"
    /\ lin.y = "b"
    /\ lin.a.sources = <<MetaA>>
    /\ lin.b.sources = <<MetaB, MetaA>>
    /\ lin.m.sources = <<MetaA, MetaB>>
    /\ lin.a.project_path = None
    /\ lin.m.project_path = "other"

\* C16: for the lineages A and B in hand, A.merge(B) and B.merge(A) hold the
\* same set of sources; A.merge(A) has no more sources than A; and merging
\* B into A.merge(B) once more changes no source.
C16_MergeCommutativeIdempotent ==
    LET AB == merge(lin.a, lin.b).merged
        BA == merge(lin.b, lin.a).merged
        AA == merge(lin.a, lin.a).merged
        ABB == merge(AB, lin.b).merged
    IN  /\ SetOf(AB.sources) = SetOf(BA.sources)
        /\ Len(AA.sources) <= Len(lin.a.sources)
        /\ ABB.sources = AB.sources
        /\ (lin.op = "merge" /\ lin.x = lin.y) =>
                Len(lin.m.sources) <= Len(lin[lin.x].sources)

\* B merged with itself while A and B overlap without being equal
C16_Witness ==
    /\ lin.op = "merge"
    /\ lin.x = "b"
    /\ lin.y = "b"
    /\ Len(lin.b.sources) = 2
    /\ lin.m.sources = lin.b.sources
    /\ SetOf(lin.a.sources) \cap SetOf(lin.b.sources) # {}
    /\ SetOf(lin.a.sources) # SetOf(lin.b.sources)

\* this step is lin[lin'.x].add_source(lin'.arg)
AddSourceStep == lin' # lin /\ lin'.op = "add_source"

SameSlugAndLocation(d, e) == d.slug = e.slug /\ d.location = e.location

\* C17 as stated: add_source appends the entry exactly when no source with
\* the same slug and location is present, and otherwise leaves the sources
\* as they are.
C17_Original_EqualityBySlugAndLocation ==
    [][AddSourceStep =>
        LET before == lin[lin'.x].sources
            after == lin'[lin'.x].sources
        IN  IF \E i \in DOMAIN before : SameSlugAndLocation(before[i], lin'.arg)
            THEN after = before
            ELSE after = Append(before, lin'.arg)]_vars

\* a DataFrame operation has just returned
TableCalled(ops) == tcall'.n = tcall.n + 1 /\ tcall'.op \in ops

\* the lineage of the instance the last call returned, and of its receiver
result_lineage == lineage_of(tcall.r)

\* C18 (as stated): merge, join and concat, with any number of other tables
\* including none, leave exactly one operation, the summary of the combination,
\* in the lineage of the result, and the lineage merge they are built on
\* produces a lineage without operations.
C18_Original_OneSummaryOperation ==
    /\ [][TableCalled({"merge", "join", "concat"}) =>
            LET combined == heap'[tables'[tcall'.r].lineage]
            IN  /\ Len(combined.operations) = 1
                /\ combined.operations[1][1] = tcall'.op]_vars
    /\ [](\A x \in TableIds, y \in TableIds :
            tables[x].alive /\ tables[y].alive =>
                merge(lineage_of(x), lineage_of(y)).merged.operations = <<>>)

\* concat with no other table has returned an instance that shares the
\* receiver's lineage object, which now holds the receiver's history and the
\* summary
C18_Witness ==
    /\ tcall.op = "concat" /\ tcall.others = <<>>
    /\ tables[tcall.r].lineage = tables[tcall.x].lineage
    /\ result_lineage.operations =
         <<<<"read_csv", "a">>, <<"concat", "1", "1">>>>

C20_SetItemMutatesInPlace ==
    [][TableCalled({"__setitem__"}) =>
        LET o == tables[tcall'.x].lineage
        IN  /\ tables' = tables
            /\ heap'[o].sources = heap[o].sources
            /\ Len(heap'[o].operations) = Len(heap[o].operations) + 1
            /\ SubSeq(heap'[o].operations, 1, Len(heap[o].operations))
                 = heap[o].operations
            /\ heap'[o].operations[Len(heap'[o].operations)][1] = "__setitem__"
            /\ \A q \in ObjIds \ {o} : heap'[q] = heap[q]]_vars

C20_Witness ==
    /\ tcall.op = "__setitem__"
    /\ lineage_of(tcall.x).sources = <<MetaA>>
    /\ lineage_of(tcall.x).operations =
         <<<<"read_csv", "a">>, <<"__setitem__", "col">>>>

\* the operations that return a new instance derived from a receiver
Deriving ==
    {"merge", "join", "concat", "head", "copy", "T", "__getitem__",
     "apply_operation"}

\* C21: the mode of an instance is chosen when it is constructed, from the
\* explicit flag if one is given and from the environment otherwise; it stays
\* what it was for as long as the variable holds that instance, whatever
\* happens to the environment; and an instance derived by a transformation,
\* merge, join or concat has the mode of the receiver.
C21_ModeFixedAtConstruction ==
    [][/\ \A t \in TableIds :
            ~(TableCalled(Deriving \cup {"__init__", "read_csv"}) /\ tcall'.r = t)
                => tables'[t].strict_mode = tables[t].strict_mode
       /\ TableCalled({"__init__", "read_csv"}) =>
            tables'[tcall'.r].strict_mode =
                IF tcall'.strict = None THEN environ = "1"
                ELSE tcall'.strict = "true"
       /\ TableCalled(Deriving) =>
            tables'[tcall'.r].strict_mode = tables[tcall'.x].strict_mode]_vars

\* a strict left table merged with a relaxed right one, in an environment
\* that by now asks for the relaxed mode
C21_Witness ==
    /\ tcall.op = "merge" /\ tcall.x = "t1" /\ tcall.others = <<"t2">>
    /\ environ = ""
    /\ tables["t1"].strict_mode /\ ~tables["t2"].strict_mode
    /\ tables["t3"].strict_mode

\* the entries of the namespaces a lookup with this dataset_type searches
Searched(dataset_type) ==
    IF dataset_type = None THEN manifest.inputs \o manifest.outputs
    ELSE entries_of(manifest, dataset_type)

\* C22 (as stated): whenever some entry of the searched namespace has exactly
\* the requested (normalized) location as its stored location, the entry the
\* lookup returns is one whose stored location is exactly that.
C22_Original_ExactMatchWins ==
    look.called =>
        LET location == normalize_location(look.location)
            searched == Searched(look.dataset_type)
        IN  (\E i \in DOMAIN searched : searched[i].location = location) =>
                /\ ~IsNone(look.result)
                /\ look.result.location = location

\* the first entry's file is gone and only its name equals the requested
\* one; the second entry is stored under exactly the requested location;
\* the first is returned
C22_Witness ==
    /\ look.called /\ look.location = RelPath(<<"data", "x.csv">>)
    /\ Len(manifest.inputs) = 2
    /\ manifest.inputs[1].location = RelPath(<<"old", "x.csv">>)
    /\ manifest.inputs[2].location = RelPath(<<"data", "x.csv">>)
    /\ ~exists(fs, AbsPath(<<"proj", "old", "x.csv">>))
    /\ look.result.slug = "a"

\* C23: the lookup returns the same entry, or none, for every spelling of the
\* project-relative path that was asked for: the path itself, the path with
\* a leading "./", and the absolute path under the project root.
C23_SpellingsFindTheSameEntry ==
    look.called =>
        \A location \in Spellings(normalize_location(look.location).segs) :
            find_dataset_by_location(_load(manifest), fs, location,
                                     look.dataset_type) = look.result

\* the entry is stored under the absolute path and found through "./"
C23_Witness ==
    /\ look.called /\ look.location = RelPath(<<".", "inputs", "a.csv">>)
    /\ manifest.inputs[1].location = AbsPath(<<"proj", "inputs", "a.csv">>)
    /\ look.result.slug = "a"

\* the requested path and the entry's path both hold a file, and not the same
DifferentFiles(location, dataset_location) ==
    LET location_abs == get_absolute_path(normalize_location(location))
        dataset_abs == get_absolute_path(dataset_location)
    IN  /\ exists(fs, location_abs) /\ exists(fs, dataset_abs)
        /\ ~samefile(fs, location_abs, dataset_abs)

\* C24: an entry whose path and the requested path both exist on disk as
\* different physical files is never the entry the lookup returns, whether or
\* not the two file names are equal.
C24_DifferentFilesNeverMatch ==
    look.called =>
        \A i \in DOMAIN Searched(look.dataset_type) :
            DifferentFiles(look.location, Searched(look.dataset_type)[i].location)
                => look.result.slug # Searched(look.dataset_type)[i].slug

\* two different files named x.csv: the one under data/ is registered, the
\* one under outputs/ is asked for, and nothing is found
C24_Witness ==
    /\ look.called /\ look.location = RelPath(<<"outputs", "x.csv">>)
    /\ manifest.inputs = <<LookupEntry("A", "a", RelPath(<<"data", "x.csv">>))>>
    /\ DifferentFiles(look.location, manifest.inputs[1].location)
    /\ look.dataset_type = None
    /\ IsNone(look.result)

\* C25 (as stated): whichever manager a mutating call goes through, no output
\* the manifest file holds is missing from it after the call: earlier
\* mutations are never lost to a later one.
C25_Original_NoMutationLost ==
    [][\A i \in DOMAIN manifest.outputs :
            UsedByOutput(manifest', manifest.outputs[i].slug)]_vars

\* an output one manager added and persisted is gone from the file after a
\* successful add through the other manager
C25_Witness ==
    /\ mcall.m = "m2" /\ mcall.op = "add_output_dataset" /\ mcall.error = "none"
    /\ \E j \in DOMAIN managers["m1"].data.outputs :
            ~UsedByOutput(manifest, managers["m1"].data.outputs[j].slug)

\* C26 (as stated): whatever happens to a call that persists the manifest,
\* the file afterwards holds its complete previous content or the complete
\* content the call was persisting.
C26_Original_NeverPartial ==
    [][ManagerCalled("add_output_dataset") \/ ManagerCalled("update_output_dataset")
         => manifest' = manifest \/ manifest' = managers'[mcall'.m].data]_vars

\* a failed add left a file without the inputs it had held
C26_Witness ==
    /\ mcall.op = "add_output_dataset" /\ mcall.error = "OSError"
    /\ manifest.inputs = <<>>
    /\ managers[mcall.m].data.inputs # <<>>

\* the variables holding the operands of the last call other than its result
OperandsOf(c) == ({c.x} \cup {c.others[i] : i \in DOMAIN c.others}) \ {c.r, "none"}

\* C27 (as stated): no two instances ever reference the same lineage object;
\* a producing operation leaves the lineage of each of its operands as it
\* was; and appending an operation to one instance's lineage leaves the
\* lineage of every other instance as it was.
C27_Original_LineageNeverShared ==
    /\ [](\A t \in TableIds, u \in TableIds :
            t # u /\ tables[t].alive /\ tables[u].alive
                => tables[t].lineage # tables[u].lineage)
    /\ [][TableCalled(Deriving) =>
            \A t \in OperandsOf(tcall') :
                heap'[tables'[t].lineage] = heap[tables[t].lineage]]_vars
    /\ [][TableCalled({"__setitem__"}) =>
            \A t \in TableIds \ {tcall'.x} :
                tables[t].alive =>
                    heap'[tables'[t].lineage] = heap[tables[t].lineage]]_vars

\* t3 is the result of a concat of t1 with no other table; a column is then
\* assigned in t3, and the operation shows in t1's lineage
C27_Witness ==
    /\ tcall.op = "__setitem__" /\ tcall.x = "t3"
    /\ tables["t1"].alive /\ tables["t3"].lineage = tables["t1"].lineage
    /\ lineage_of("t1").operations =
         <<<<"read_csv", "a">>, <<"concat", "1", "1">>, <<"__setitem__", "col">>>>

\* C28: every call of fetch_from_url that has started comes to an end, with
\* the path returned or an exception raised, whatever the responses are,
\* also when every response is a redirect.
C28_FetchTerminates == (call.pc # "idle") ~> (call.pc = "done")

\* a call that followed as many redirects as it was allowed and ended
C28_Witness ==
    /\ call.pc = "done" /\ call.result = "TooManyRedirects"
    /\ call.max_redirects = MaxRedirectsArg
    /\ call.redirect_count = MaxRedirectsArg

\* C29 (as stated): a call of fetch_from_url that ends with an exception,
\* whatever the exception, leaves the local file as it was when the call
\* began: not created, not modified.
C29_Original_FailedFetchKeepsFile ==
    call.pc = "done" /\ call.result # "returned" => local_file = call.local_before

\* a forced refresh whose write failed after the file was opened: the copy
\* that existed is truncated
C29_Witness ==
    /\ call.pc = "done" /\ call.result = "OSError" /\ call.force
    /\ call.local_before = "old"
    /\ local_file = "truncated"

\* the manifest holds, as its last output, the entry this write registered,
\* without a lineage block
HoldsNewEntry(file, w) ==
    /\ file.outputs # <<>>
    /\ file.outputs[Len(file.outputs)].slug = w.slug
    /\ file.outputs[Len(file.outputs)].location = w.location
    /\ ~file.outputs[Len(file.outputs)].lineage.present

\* C30: a relaxed write that registers a new output has the entry in the
\* manifest file before any file is written; when the physical write then
\* fails, the call ends with that entry still in the file, without a lineage
\* block, and the file otherwise as the registration left it.
C30_RegistrationSurvivesFailedWrite ==
    /\ [][(RelaxedRegistration /\ wr'.pc = "write") =>
            /\ HoldsNewEntry(manifest', wr')
            /\ fs' = fs
            /\ wr'.write = "none"]_vars
    /\ [][(wr.pc = "write" /\ ~wr.found /\ wr'.result = "OSError") =>
            /\ wr'.pc = "done"
            /\ HoldsNewEntry(manifest, wr)
            /\ manifest' = manifest]_vars
    /\ [](RelaxedRegistrationDone /\ wr.result = "OSError"
            => HoldsNewEntry(manifest, wr))

C30_Witness ==
    /\ RelaxedRegistrationDone /\ wr.result = "OSError"
    /\ wr.write = "write_failed"
    /\ HoldsNewEntry(manifest, wr)
    /\ wr.slug = "s2"

====
